---- MODULE Spec2Model ----
(***************************************************************************)
(* The WebSocket chat server of terminal_messenger:                        *)
(*   src/src/server/websocket.rs      accept loop, per-connection tasks,   *)
(*                                    chat fan-out, handle_disconnection   *)
(*   src/crates/server/src/app.rs     App: connected_users, history        *)
(*   src/crates/server/src/commander.rs  handle_command (name, list)       *)
(*   src/src/server/server.rs,                                             *)
(*   src/src/server/commander.rs      the string-protocol server with its  *)
(*                                    handle_command (/name, /dm)          *)
(*                                                                         *)
(* Every step that runs under one lock acquisition (or between two await   *)
(* points) is one action; the code between two lock acquisitions can be    *)
(* interleaved with the steps of every other task.                         *)
(***************************************************************************)
EXTENDS Integers, Sequences, FiniteSets, TLC

\* ------------------------------------------------------------------ bounds
MaxSessions == 2      \* connections the listener accepts
\* Every specification gives the environment a budget: the number of frames
\* the clients send that the readers act on, and the number of faults
\* (transport failures, keep-alive timeouts, the shutdown signal).
MaxFrames   == 1      \* Spec
MaxFaults   == 1
TdFrames    == 1      \* SpecTeardown
TdFaults    == 2
ChatFrames  == 2      \* SpecChat
ChatFaults  == 1
LiveFrames  == 1      \* SpecLive
LiveFaults  == 1
MaxAppends  == 102    \* SpecHistory: appends driven
KeepFrames  == 2      \* SpecKeep
KeepFaults  == 1
TextFrames  == 2      \* SpecText
AuthFrames  == 1      \* SpecAuth: chat frames
MaxRejected == 5      \* SpecAuth: rejected credential submissions per session
MaxCalls    == 4      \* SpecCred: calls of authenticate_user
CmdFrames   == 3      \* SpecCmd
GoneFrames  == 2      \* SpecGone
GoneFaults  == 1
MaxPeers    == 3      \* SpecDm: connections of the string-protocol server
DmFrames    == 3      \* SpecDm
StrFrames   == 2      \* SpecStr: chat frames
StrFaults   == 2      \* SpecStr: failing writers and ending readers
StrHistFrames == 103  \* SpecStrHist: chat frames, enough to pass the capacity
MaxText     == 5      \* SpecWrap: characters of the text
MaxWidth    == 3      \* SpecWrap: largest max_width
MaxLockOps  == 3      \* SpecLocks: operations begun after the joins
PongFrames  == 2      \* SpecPong: Pong frames of the clients
PongFaults  == 1      \* SpecPong: timeouts of the keepers
MaxPings    == 3      \* SpecPong: Pings a keeper writes
MaxServerMsgs == 8    \* SpecClient: server messages the client handles
DmFaults    == 1

\* ------------------------------------------------------- program constants
HistoryCap == 100     \* app.rs: message_history.len() == 100
PongCap    == 1       \* websocket.rs: mpsc::channel(1)
PingPeriod == 30      \* websocket.rs: interval(Duration::from_secs(30))
StrHistoryCap == 100  \* server.rs: history.lock().await.len() == 100
AuthLimit  == 5       \* client app.rs: failed_login_attempts >= 5

Sessions == 1..MaxSessions
Tasks    == {"main", "ping", "send", "recv"}

Contents      == {"hi"}               \* chat contents a client types
ClientSenders == {"spoof"}            \* sender field a client puts in a ChatMessage
NewNames      == {"wonder"}           \* argument of the name command
CmdNames      == {"ann", "bob", ""}   \* SpecCmd: argument of the name command
DefaultName   == "Anonymous"
Usernames     == {"user1", "user2", "nobody", ""}       \* submitted usernames
Passwords     == {"password1", "password2", "user1", ""} \* submitted passwords
NoPing        == -1                   \* firstPing before any Ping
NoCred        == [username |-> "", password |-> ""]
Peers         == 1..MaxPeers          \* connections of the string-protocol server
PeerNames     == {"ann", "bob"}       \* names given to /name and to /dm
\* The mutexes of the server: the App, the clients map, and for every session
\* its UserInfo, its disconnect_handled flag and its outgoing sink.
Mutexes ==
    {<<"app", 0>>, <<"clients", 0>>}
        \cup {<<k, s>> : k \in {"user", "flag", "sink"}, s \in Sessions}
Free          == <<0, "free">>
None          == <<>>                 \* Option<String>
Some(x)       == <<x>>
NoDm          == [to |-> 0, recipient_name |-> "", message |-> ""]

\* ---------------------------------------------------------------- messages
\* MessageType::ChatMessage { sender, content }.  from and id are history
\* (ghost) fields: the session whose reader produced the message and the
\* rank of the message among all chats read; no action reads them.
ChatMessage(sender, content, from, id) ==
    [kind |-> "ChatMessage", sender |-> sender, content |-> content,
     from |-> from, id |-> id]

\* MessageType::SystemMessage(text).  text is the list of the pieces the
\* format! call joins; about is a ghost field (the session it concerns).
SystemMessage(text, about) ==
    [kind |-> "SystemMessage", text |-> text, about |-> about]

DisconnectMessage(name, s) == SystemMessage(<<name, " has disconnected.">>, s)
NameReply(name, s) == SystemMessage(<<"Your name is now set to '", name, "'">>, s)
UnknownReply(s) ==
    SystemMessage(<<"Unknown command. Type /help for a list of commands.">>, s)

NoMsg == [kind |-> "none"]

VARIABLES
    clients,      \* keys of the clients map (id -> UnboundedSender)
    users,        \* App.connected_users: id -> UserInfo
    history,      \* App.message_history
    clock,        \* the system clock: the number of readings taken so far
    queue,        \* per session: messages waiting in its unbounded channel
    enq,          \* ghost: per session, every message ever enqueued to it
    sent,         \* per session: text frames send_task wrote to the sink
    pc,           \* pc[s][t]: position of task t of session s
    rd,           \* recv_task local: the message being handled
    pending,      \* handle_connection local: history snapshot still to replay
    replayed,     \* ghost: the snapshot handle_connection took
    histAtJoin,   \* ghost: history when the session was put into clients
    handled,      \* the disconnect_handled flag
    hdLock,       \* holder of the disconnect_handled mutex
    tdName,       \* handle_disconnection local client_name
    tdRuns,       \* ghost: number of executions of the removal step
    pongs,        \* items in the pong channel
    acceptor,     \* websocket_task loop position
    accSig,       \* a shutdown signal waits in the acceptor's subscriber
    sig,          \* a shutdown signal waits in the session's subscriber
    shutdownSent, \* the shutdown broadcast was sent
    frames,       \* budget: frames the readers may still act on
    faults,       \* budget: faults that may still happen
    nchat,        \* ghost: number of chat messages read so far
    procName,     \* ghost: id -> registry username when chat id was processed
    hist,         \* SpecHistory: the ring
    appended,     \* SpecHistory: ghost log of every append
    ticks,        \* ping_task: ticks of ping_interval completed
    firstPing,    \* ghost: seconds from the start of ping_task to its first Ping
    authed,       \* ghost: the session submitted credentials the store accepts
    failed,       \* ghost: credential submissions of the session the store rejects
    cred,         \* SpecCred: the arguments of authenticate_user
    result,       \* SpecCred: what authenticate_user returned for them
    ncalls,       \* SpecCred: calls made
    strClients,   \* string protocol: the clients map, id -> Option<String>
    strSent,      \* string protocol: per id, the strings sent on its tx
    strClosed,    \* string protocol: the ids whose rx was dropped
    strPc,        \* string protocol: position of the reader of each id
    strOut,       \* handle_command local: the message for send_to_client
    strDm,        \* handle_command locals of /dm: tx's owner, args
    strHistory,   \* string protocol: the history VecDeque
    strMsg,       \* string protocol: recv_task local broadcast_message
    wtText,       \* wrap_text: the argument text, a sequence of characters
    wtWidth,      \* wrap_text: the argument max_width
    wtLines,      \* wrap_text: the returned lines, None before the call
    mtx,          \* mutexes: for each mutex the task holding it, or Free
    script,       \* mutexes: per task, the rest of the code it is running
    lkOps,        \* mutexes: budget of the operations the tasks may begin
    stale,        \* ghost: pongs in the channel when the keeper wrote its Ping
    failed_login_attempts, \* client App: the u8 counter
    current_screen,        \* client App: the screen shown
    remaining_attempts,    \* client: the last value computed for the notice
    connected,    \* client: the websocket stream yields server messages
    crashed,      \* client: the process panicked
    nmsgs         \* client: budget, the server messages handled so far

app     == <<users, history, clock>>
chan    == <<queue, enq, sent>>
locals  == <<rd, pending, replayed, histAtJoin>>
guard   == <<handled, hdLock, tdName, tdRuns>>
signals == <<acceptor, accSig, sig, shutdownSent>>
budget  == <<frames, faults>>
chats   == <<nchat, procName>>
ring    == <<hist, appended>>
keep    == <<ticks, firstPing>>
auth    == <<authed, failed, cred, result, ncalls>>
strsrv  == <<strClients, strSent, strClosed, strPc, strOut, strDm>>
strchat == <<strHistory, strMsg>>
wrap    == <<wtText, wtWidth, wtLines>>
locks   == <<mtx, script, lkOps>>
cli     == <<failed_login_attempts, current_screen, remaining_attempts,
             connected, crashed, nmsgs>>
ext     == <<strchat, wrap, locks, stale, cli>>
base    == <<clients, app, chan, pc, locals, guard, pongs, signals, budget,
             chats, ring, keep, auth, strsrv>>

vars == <<clients, app, chan, pc, locals, guard, pongs, signals, budget, chats,
          ring, keep, auth, strsrv, ext>>

\* ------------------------------------------------------------------ helpers
Goto(s, t, l) == pc' = [pc EXCEPT ![s][t] = l]

Ended(s, t) == pc[s][t] \in {"done", "panicked"}

\* The receiver half rx lives in handle_connection and then in send_task's
\* future; it is dropped when that future completes.
RxOpen(s) == ~Ended(s, "send")

\* UnboundedSender::send: Ok and enqueued while the receiver lives, Err else.
SendTo(q, s, m) == IF RxOpen(s) THEN [q EXCEPT ![s] = Append(@, m)] ELSE q

\* Mutant: the append without the eviction.
add_message_unbounded(h, m) == Append(h, m)

\* Mutant: the eviction takes the newest entry (pop_back for pop_front).
add_message_evict_newest(h, m) ==
    IF Len(h) = HistoryCap THEN Append(SubSeq(h, 1, Len(h) - 1), m) ELSE Append(h, m)

\* App::add_message_to_history
add_message_to_history(h, m) ==
    IF Len(h) = HistoryCap THEN Append(Tail(h), m) ELSE Append(h, m)

\* App::get_message_history
get_message_history(h) == h

\* App::add_connected_user; now is what SystemTime::now() returns
add_connected_user(u, s, name, now) ==
    [x \in DOMAIN u \cup {s} |->
        IF x = s
        THEN [username |-> name, connection_time |-> now, message_count |-> 0]
        ELSE u[x]]

\* App::remove_connected_user
remove_connected_user(u, s) == [x \in DOMAIN u \ {s} |-> u[x]]

\* Mutant: the entry is made anew under the new name (add_connected_user for
\* update_username).
update_username_recreate(u, s, name) ==
    IF s \in DOMAIN u THEN add_connected_user(u, s, name, clock) ELSE u

\* Mutant: the new name is not stored.
update_username_dropped(u, s, name) == u

\* App::update_username
update_username(u, s, name) ==
    IF s \in DOMAIN u THEN [u EXCEPT ![s].username = name] ELSE u

\* App::new: the credential store
user_credentials ==
    [u \in {"user1", "user2"} |->
        [username |-> u,
         password |-> IF u = "user1" THEN "password1" ELSE "password2"]]

\* Mutant: the password is not compared.
authenticate_known_user(creds, username, password) == username \in DOMAIN creds

\* App::authenticate_user
authenticate_user(creds, username, password) ==
    IF username \in DOMAIN creds
    THEN creds[username].password = password
    ELSE FALSE

\* ---------------------------------------------------------------- initial
InitServers(nframes, nfaults) ==
    /\ clients = {}
    /\ users = <<>>
    /\ history = <<>>
    /\ clock = 0
    /\ queue = [s \in Sessions |-> <<>>]
    /\ enq = [s \in Sessions |-> <<>>]
    /\ sent = [s \in Sessions |-> <<>>]
    /\ pc = [s \in Sessions |->
               [t \in Tasks |-> IF t = "main" THEN "idle" ELSE "off"]]
    /\ rd = [s \in Sessions |-> NoMsg]
    /\ pending = [s \in Sessions |-> <<>>]
    /\ replayed = [s \in Sessions |-> <<>>]
    /\ histAtJoin = [s \in Sessions |-> <<>>]
    /\ handled = [s \in Sessions |-> FALSE]
    /\ hdLock = [s \in Sessions |-> "free"]
    /\ tdName = [s \in Sessions |-> ""]
    /\ tdRuns = [s \in Sessions |-> 0]
    /\ pongs = [s \in Sessions |-> 0]
    /\ acceptor = "subscribe"
    /\ accSig = FALSE
    /\ sig = [s \in Sessions |-> FALSE]
    /\ shutdownSent = FALSE
    /\ frames = nframes
    /\ faults = nfaults
    /\ nchat = 0
    /\ procName = <<>>
    /\ hist = <<>>
    /\ appended = <<>>
    /\ ticks = [s \in Sessions |-> 0]
    /\ firstPing = [s \in Sessions |-> NoPing]
    /\ authed = [s \in Sessions |-> FALSE]
    /\ failed = [s \in Sessions |-> 0]
    /\ cred = NoCred
    /\ result = "none"
    /\ ncalls = 0
    /\ strClients = <<>>
    /\ strSent = [p \in Peers |-> <<>>]
    /\ strClosed = {}
    /\ strPc = [p \in Peers |-> "off"]
    /\ strOut = [p \in Peers |-> <<>>]
    /\ strDm = [p \in Peers |-> NoDm]
    /\ strHistory = <<>>
    /\ strMsg = [p \in Peers |-> <<>>]
    /\ stale = [s \in Sessions |-> 0]
    /\ failed_login_attempts = 0
    /\ current_screen = "ServerSelection"
    /\ remaining_attempts = None
    /\ connected = FALSE
    /\ crashed = FALSE
    /\ nmsgs = 0

InitWith(nframes, nfaults) ==
    /\ InitServers(nframes, nfaults)
    /\ mtx = [m \in Mutexes |-> Free]
    /\ script = [s \in Sessions |-> [t \in Tasks |-> <<>>]]
    /\ lkOps = 0
    /\ wtText = <<>>
    /\ wtWidth = 0
    /\ wtLines = None

\* ------------------------------------------------------ websocket_task loop
\* loop top: let mut shutdown_subscriber = shutdown.subscribe()
AcceptorSubscribe ==
    /\ acceptor = "subscribe"
    /\ acceptor' = "select"
    /\ accSig' = FALSE
    /\ UNCHANGED <<clients, app, chan, pc, locals, guard, pongs, sig,
                   shutdownSent, budget, chats, ring, keep,
                   auth, strsrv, ext>>

\* select arm listener.accept(): subscribe for the session, spawn
\* handle_connection, go round the loop (the acceptor's subscriber is dropped).
Accept(s) ==
    /\ acceptor = "select"
    /\ pc[s]["main"] = "idle"
    /\ \A x \in Sessions : x < s => pc[x]["main"] # "idle"
    /\ Goto(s, "main", "insert")
    /\ sig' = [sig EXCEPT ![s] = FALSE]
    /\ acceptor' = "subscribe"
    /\ accSig' = FALSE
    /\ UNCHANGED <<clients, app, chan, locals, guard, pongs, shutdownSent,
                   budget, chats, ring, keep,
                   auth, strsrv, ext>>

\* select arm shutdown_subscriber.recv(): break
AcceptorStop ==
    /\ acceptor = "select"
    /\ accSig
    /\ acceptor' = "stopped"
    /\ UNCHANGED <<clients, app, chan, pc, locals, guard, pongs, accSig, sig,
                   shutdownSent, budget, chats, ring, keep,
                   auth, strsrv, ext>>

\* The process-wide shutdown broadcast: it reaches the subscribers that exist.
Shutdown ==
    /\ ~shutdownSent
    /\ faults > 0
    /\ faults' = faults - 1
    /\ shutdownSent' = TRUE
    /\ accSig' = (acceptor = "select")
    /\ sig' = [s \in Sessions |-> pc[s]["main"] \notin {"idle", "done", "panicked"}]
    /\ UNCHANGED <<clients, app, chan, pc, locals, guard, pongs, acceptor,
                   frames, chats, ring, keep,
                   auth, strsrv, ext>>

\* -------------------------------------------------------- handle_connection
\* clients.lock().await.insert(client_id, tx_original.clone())
JoinInsert(s) ==
    /\ pc[s]["main"] = "insert"
    /\ clients' = clients \cup {s}
    /\ histAtJoin' = [histAtJoin EXCEPT ![s] = history]
    /\ Goto(s, "main", "add_user")
    /\ UNCHANGED <<app, chan, rd, pending, replayed, guard, pongs, signals,
                   budget, chats, ring, keep,
                   auth, strsrv, ext>>

\* app.lock().await.add_connected_user(client_id, "Anonymous")
JoinAddUser(s) ==
    /\ pc[s]["main"] = "add_user"
    /\ users' = add_connected_user(users, s, DefaultName, clock)
    /\ clock' = clock + 1
    /\ Goto(s, "main", "snapshot")
    /\ UNCHANGED <<clients, history, chan, locals, guard, pongs, signals,
                   budget, chats, ring, keep,
                   auth, strsrv, ext>>

\* let history = app.lock().await.get_message_history().await
JoinSnapshot(s) ==
    /\ pc[s]["main"] = "snapshot"
    /\ pending' = [pending EXCEPT ![s] = get_message_history(history)]
    /\ replayed' = [replayed EXCEPT ![s] = get_message_history(history)]
    /\ Goto(s, "main", "replay")
    /\ UNCHANGED <<clients, app, chan, rd, histAtJoin, guard, pongs, signals,
                   budget, chats, ring, keep,
                   auth, strsrv, ext>>

\* for message in history { tx_original.send(message.clone()).unwrap() }
JoinReplay(s) ==
    /\ pc[s]["main"] = "replay"
    /\ pending[s] # <<>>
    /\ queue' = SendTo(queue, s, Head(pending[s]))
    /\ enq' = SendTo(enq, s, Head(pending[s]))
    /\ pending' = [pending EXCEPT ![s] = Tail(@)]
    /\ UNCHANGED <<clients, app, sent, pc, rd, replayed, histAtJoin, guard,
                   pongs, signals, budget, chats, ring, keep,
                   auth, strsrv, ext>>

\* tokio::spawn of ping_task, send_task and recv_task; then the select!
JoinSpawn(s) ==
    /\ pc[s]["main"] = "replay"
    /\ pending[s] = <<>>
    /\ pc' = [pc EXCEPT ![s] = [main |-> "select", ping |-> "tick",
                                send |-> "recv", recv |-> "read"]]
    /\ UNCHANGED <<clients, app, chan, locals, guard, pongs, signals, budget,
                   chats, ring, keep,
                   auth, strsrv, ext>>

\* Mutant: the select! without its ping_task arm.
MainSelectNoKeeper(s) ==
    /\ pc[s]["main"] = "select"
    /\ \/ Ended(s, "send") \/ Ended(s, "recv")
       \/ sig[s]
    /\ Goto(s, "main", "hd")
    /\ UNCHANGED <<clients, app, chan, locals, guard, pongs, signals, budget,
                   chats, ring, keep,
                   auth, strsrv, ext>>

\* select! { send_task, recv_task, ping_task, shutdown.recv() }, then the
\* call of handle_disconnection at the end of handle_connection
MainSelect(s) ==
    /\ pc[s]["main"] = "select"
    /\ \/ Ended(s, "send") \/ Ended(s, "recv") \/ Ended(s, "ping")
       \/ sig[s]
    /\ Goto(s, "main", "hd")
    /\ UNCHANGED <<clients, app, chan, locals, guard, pongs, signals, budget,
                   chats, ring, keep,
                   auth, strsrv, ext>>

\* ---------------------------------------------------------------- recv_task
\* A panic inside a spawned task ends that task only (tokio catches it); the
\* guards it holds are released by unwinding.
Panic(s, t) == Goto(s, t, "panicked")

\* Mutant: the message is passed on with the sender the client supplied.
broadcast_message_as_received(client_name, sender, content, s, id) ==
    ChatMessage(sender, content, s, id)

\* let broadcast_message = ChatMessage { sender: client_name, content }
\* (the pattern `sender: _` drops the sender the client supplied)
broadcast_message(client_name, sender, content, s, id) ==
    ChatMessage(client_name, content, s, id)

\* Ok(Message::Text) decoding to ChatMessage: the first statement of the arm,
\* app.lock().await.get_connected_user(client_id).await.unwrap()...username
RecvChat(s, sender, content) ==
    /\ pc[s]["recv"] = "read"
    /\ frames > 0
    /\ frames' = frames - 1
    /\ IF s \in DOMAIN users
       THEN /\ rd' = [rd EXCEPT ![s] = broadcast_message(users[s].username,
                                            sender, content, s, nchat + 1)]
            /\ nchat' = nchat + 1
            /\ procName' = Append(procName, users[s].username)
            /\ Goto(s, "recv", "chat_hist")
       ELSE /\ Panic(s, "recv")
            /\ UNCHANGED <<rd, chats>>
    /\ UNCHANGED <<clients, app, chan, pending, replayed, histAtJoin, guard,
                   pongs, signals, faults, ring, keep,
                   auth, strsrv, ext>>

\* app.lock().await.add_message_to_history(broadcast_message.clone())
ChatHist(s) ==
    /\ pc[s]["recv"] = "chat_hist"
    /\ history' = add_message_to_history(history, rd[s])
    /\ Goto(s, "recv", "chat_fan")
    /\ UNCHANGED <<clients, users, clock, chan, locals, guard, pongs, signals, budget,
                   chats, ring, keep,
                   auth, strsrv, ext>>

\* Mutant: the test of the send result inverted (is_ok for is_err).
disconnected_clients_inverted == {id \in clients : RxOpen(id)}

\* The ids the fan-out collects in disconnected_clients: tx.send failed.
disconnected_clients == {id \in clients : ~RxOpen(id)}

\* The queues after sending m to every entry of the clients map.
FanOut(q, m) ==
    [x \in Sessions |-> IF x \in clients /\ RxOpen(x) THEN Append(q[x], m) ELSE q[x]]

\* Mutant: the fan-out skips the entry of the sending session.
ChatFanOthers(s) ==
    /\ pc[s]["recv"] = "chat_fan"
    /\ queue' = [FanOut(queue, rd[s]) EXCEPT ![s] = queue[s]]
    /\ enq' = [FanOut(enq, rd[s]) EXCEPT ![s] = enq[s]]
    /\ clients' = clients \ disconnected_clients
    /\ rd' = [rd EXCEPT ![s] = NoMsg]
    /\ Goto(s, "recv", "read")
    /\ UNCHANGED <<app, sent, pending, replayed, histAtJoin, guard, pongs,
                   signals, budget, chats, ring, keep,
                   auth, strsrv, ext>>

\* let mut clients_lock = clients.lock().await; send to every entry; remove
\* the entries whose send failed
ChatFan(s) ==
    /\ pc[s]["recv"] = "chat_fan"
    /\ queue' = FanOut(queue, rd[s])
    /\ enq' = FanOut(enq, rd[s])
    /\ clients' = clients \ disconnected_clients
    /\ rd' = [rd EXCEPT ![s] = NoMsg]
    /\ Goto(s, "recv", "read")
    /\ UNCHANGED <<app, sent, pending, replayed, histAtJoin, guard, pongs,
                   signals, budget, chats, ring, keep,
                   auth, strsrv, ext>>

\* Command "name" with args.get(0) = Some(new_name):
\* app.lock().await.update_username(client_id, new_name)
RecvName(s, new_name) ==
    /\ pc[s]["recv"] = "read"
    /\ frames > 0
    /\ frames' = frames - 1
    /\ users' = update_username(users, s, new_name)
    /\ rd' = [rd EXCEPT ![s] = NameReply(new_name, s)]
    /\ Goto(s, "recv", "name_reply")
    /\ UNCHANGED <<clients, history, clock, chan, pending, replayed, histAtJoin, guard,
                   pongs, signals, faults, chats, ring, keep,
                   auth, strsrv, ext>>

\* Mutant: the confirmation is also appended to the history.
NameSendHistoric(s) ==
    /\ pc[s]["recv"] = "name_reply"
    /\ rd' = [rd EXCEPT ![s] = NoMsg]
    /\ history' = add_message_to_history(history, rd[s])
    /\ IF s \in clients /\ RxOpen(s)
       THEN /\ queue' = SendTo(queue, s, rd[s])
            /\ enq' = SendTo(enq, s, rd[s])
            /\ Goto(s, "recv", "read")
       ELSE /\ Panic(s, "recv")
            /\ UNCHANGED <<queue, enq>>
    /\ UNCHANGED <<clients, users, clock, sent, pending, replayed, histAtJoin, guard,
                   pongs, signals, budget, chats, ring, keep,
                   auth, strsrv, ext>>

\* clients.lock().await.get(client_id).unwrap().send(system_message).unwrap()
NameSend(s) ==
    /\ pc[s]["recv"] = "name_reply"
    /\ rd' = [rd EXCEPT ![s] = NoMsg]
    /\ IF s \in clients /\ RxOpen(s)
       THEN /\ queue' = SendTo(queue, s, rd[s])
            /\ enq' = SendTo(enq, s, rd[s])
            /\ Goto(s, "recv", "read")
       ELSE /\ Panic(s, "recv")
            /\ UNCHANGED <<queue, enq>>
    /\ UNCHANGED <<clients, app, sent, pending, replayed, histAtJoin, guard,
                   pongs, signals, budget, chats, ring, keep,
                   auth, strsrv, ext>>

\* if let Some(sender) = clients.lock().await.get(client_id)
\*     { sender.send(system_message).unwrap(); }
ReplyIfPresent(s, m) ==
    IF s \notin clients
    THEN /\ Goto(s, "recv", "read")
         /\ UNCHANGED <<queue, enq>>
    ELSE IF RxOpen(s)
         THEN /\ queue' = SendTo(queue, s, m)
              /\ enq' = SendTo(enq, s, m)
              /\ Goto(s, "recv", "read")
         ELSE /\ Panic(s, "recv")
              /\ UNCHANGED <<queue, enq>>

\* names.join(", ")
RECURSIVE Join(_, _)
Join(names, sep) ==
    IF Len(names) = 0 THEN <<>>
    ELSE IF Len(names) = 1 THEN names
    ELSE <<Head(names), sep>> \o Join(Tail(names), sep)

\* The orders in which connected_users.values() can yield the entries.
Orders(D) ==
    {f \in [1..Cardinality(D) -> D] : \A i, j \in 1..Cardinality(D) : f[i] = f[j] => i = j}

\* MessageType::SystemMessage(format!("Connected users: {}", names_string))
ListReply(names, s) ==
    SystemMessage(<<"Connected users: ">> \o Join(names, ", "), s)

\* Command "list": handle_command enters the "list" arm
RecvList(s) ==
    /\ pc[s]["recv"] = "read"
    /\ frames > 0
    /\ frames' = frames - 1
    /\ Goto(s, "recv", "list")
    /\ UNCHANGED <<clients, app, chan, locals, guard, pongs, signals, faults,
                   chats, ring, keep,
                   auth, strsrv, ext>>

\* Mutant: the reply goes to every entry of the clients map.
ListSendAll(s) ==
    /\ pc[s]["recv"] = "list"
    /\ \E f \in Orders(DOMAIN users) :
         LET names == [i \in 1..Cardinality(DOMAIN users) |-> users[f[i]].username]
         IN  /\ queue' = FanOut(queue, ListReply(names, s))
             /\ enq' = FanOut(enq, ListReply(names, s))
    /\ Goto(s, "recv", "read")
    /\ UNCHANGED <<clients, app, sent, locals, guard, pongs, signals, budget,
                   chats, ring, keep,
                   auth, strsrv, ext>>

\* The "list" arm: under the app lock the usernames of connected_users are
\* collected in the order values() yields them and joined; the reply goes to
\* the issuer's entry of the clients map, if there is one
ListSend(s) ==
    /\ pc[s]["recv"] = "list"
    /\ \E f \in Orders(DOMAIN users) :
         LET names == [i \in 1..Cardinality(DOMAIN users) |-> users[f[i]].username]
         IN  ReplyIfPresent(s, ListReply(names, s))
    /\ UNCHANGED <<clients, app, sent, locals, guard, pongs, signals, budget,
                   chats, ring, keep,
                   auth, strsrv, ext>>

\* A Command with any other name (the client's "DirectMessage" included):
\* handle_command enters the `_` arm
RecvUnknown(s) ==
    /\ pc[s]["recv"] = "read"
    /\ frames > 0
    /\ frames' = frames - 1
    /\ Goto(s, "recv", "unknown")
    /\ UNCHANGED <<clients, app, chan, locals, guard, pongs, signals, faults,
                   chats, ring, keep,
                   auth, strsrv, ext>>

\* Mutant: after the notice the reader leaves its loop.
UnknownSendQuit(s) ==
    /\ pc[s]["recv"] = "unknown"
    /\ queue' = SendTo(queue, s, UnknownReply(s))
    /\ enq' = SendTo(enq, s, UnknownReply(s))
    /\ Goto(s, "recv", "hd")
    /\ UNCHANGED <<clients, app, sent, locals, guard, pongs, signals, budget,
                   chats, ring, keep,
                   auth, strsrv, ext>>

\* The `_` arm: the notice goes to the issuer's entry of the clients map, if
\* there is one
UnknownSend(s) ==
    /\ pc[s]["recv"] = "unknown"
    /\ ReplyIfPresent(s, UnknownReply(s))
    /\ UNCHANGED <<clients, app, sent, locals, guard, pongs, signals, budget,
                   chats, ring, keep,
                   auth, strsrv, ext>>

\* Frames the reader only logs, taken without their count: a name command
\* without argument, Ping, and the Ok(_) arm (Binary, Close).
RecvIgnored(s) ==
    /\ pc[s]["recv"] = "read"
    /\ UNCHANGED vars

\* A text frame decoding to SystemMessage("<username>:<password>"), the form
\* in which the client submits credentials: the SystemMessage arm of
\* handle_incoming_message prints it.  No handler calls authenticate_user;
\* authed and failed record what the credential store says of the submission.
RecvCredentials(s, username, password) ==
    /\ pc[s]["recv"] = "read"
    /\ IF authenticate_user(user_credentials, username, password)
       THEN /\ ~authed[s]
            /\ authed' = [authed EXCEPT ![s] = TRUE]
            /\ UNCHANGED failed
       ELSE /\ failed[s] < MaxRejected
            /\ failed' = [failed EXCEPT ![s] = @ + 1]
            /\ UNCHANGED authed
    /\ UNCHANGED <<clients, app, chan, pc, locals, guard, pongs, signals,
                   budget, chats, ring, keep, cred, result, ncalls,
                   strsrv, ext>>

\* Ok(Message::Pong(_)): about to run pong_tx_clone.send(()).await
RecvPong(s) ==
    /\ pc[s]["recv"] = "read"
    /\ frames > 0
    /\ frames' = frames - 1
    /\ Goto(s, "recv", "pong")
    /\ UNCHANGED <<clients, app, chan, locals, guard, pongs, signals, faults,
                   chats, ring, keep,
                   auth, strsrv, ext>>

\* let _ = pong_tx_clone.send(()).await: waits for room in the channel of
\* capacity 1; Err (ignored) once ping_task has dropped pong_rx
PongSend(s) ==
    /\ pc[s]["recv"] = "pong"
    /\ IF Ended(s, "ping")
       THEN UNCHANGED pongs
       ELSE /\ pongs[s] < PongCap
            /\ pongs' = [pongs EXCEPT ![s] = @ + 1]
    /\ Goto(s, "recv", "read")
    /\ UNCHANGED <<clients, app, chan, locals, guard, signals, budget, chats,
                   ring, keep,
                   auth, strsrv, ext>>

\* Ok(Message::Text(text)) and serde_json::from_str::<MessageType>(&text) is
\* Err: the Err(_) arm is entered
RecvInvalid(s) ==
    /\ pc[s]["recv"] = "read"
    /\ frames > 0
    /\ frames' = frames - 1
    /\ Goto(s, "recv", "invalid")
    /\ UNCHANGED <<clients, app, chan, locals, guard, pongs, signals, faults,
                   chats, ring, keep, auth, strsrv, ext>>

\* Mutant: the Err(_) arm leaves the loop (break), which ends in
\* handle_disconnection.
LogInvalidBreak(s) ==
    /\ pc[s]["recv"] = "invalid"
    /\ Goto(s, "recv", "hd")
    /\ UNCHANGED <<clients, app, chan, locals, guard, pongs, signals, budget,
                   chats, ring, keep, auth, strsrv, ext>>

\* println!("Invalid message format from client: {}", ..); next iteration
LogInvalid(s) ==
    /\ pc[s]["recv"] = "invalid"
    /\ Goto(s, "recv", "read")
    /\ UNCHANGED <<clients, app, chan, locals, guard, pongs, signals, budget,
                   chats, ring, keep, auth, strsrv, ext>>

\* Mutant: the reader logs the end of the stream and reads on (continue for
\* break).
RecvEndIgnored(s) ==
    /\ pc[s]["recv"] = "read"
    /\ faults > 0
    /\ faults' = faults - 1
    /\ UNCHANGED <<clients, app, chan, pc, locals, guard, pongs, signals, frames,
                   chats, ring, keep, auth, strsrv, ext>>

\* incoming.next() yields None or Err: leave the loop, call handle_disconnection
RecvEnd(s) ==
    /\ pc[s]["recv"] = "read"
    /\ faults > 0
    /\ faults' = faults - 1
    /\ Goto(s, "recv", "hd")
    /\ UNCHANGED <<clients, app, chan, locals, guard, pongs, signals, frames,
                   chats, ring, keep,
                   auth, strsrv, ext>>

\* ---------------------------------------------------------------- send_task
\* rx.recv() yields a message and outgoing.send(Text(..)) succeeds
Write(s) ==
    /\ pc[s]["send"] = "recv"
    /\ queue[s] # <<>>
    /\ queue' = [queue EXCEPT ![s] = Tail(@)]
    /\ sent' = [sent EXCEPT ![s] = Append(@, Head(queue[s]))]
    /\ UNCHANGED <<clients, app, enq, pc, locals, guard, pongs, signals, budget,
                   chats, ring, keep,
                   auth, strsrv, ext>>

\* rx.recv() yields a message and outgoing.send(Text(..)) fails: break
WriteError(s) ==
    /\ pc[s]["send"] = "recv"
    /\ queue[s] # <<>>
    /\ faults > 0
    /\ faults' = faults - 1
    /\ queue' = [queue EXCEPT ![s] = Tail(@)]
    /\ Goto(s, "send", "hd")
    /\ UNCHANGED <<clients, app, enq, sent, locals, guard, pongs, signals,
                   frames, chats, ring, keep,
                   auth, strsrv, ext>>

\* rx.recv() yields None: the queue is empty and every sender is dropped (the
\* clients entry and handle_connection's tx_original)
WriterClosed(s) ==
    /\ pc[s]["send"] = "recv"
    /\ queue[s] = <<>>
    /\ s \notin clients
    /\ Ended(s, "main")
    /\ Goto(s, "send", "hd")
    /\ UNCHANGED <<clients, app, chan, locals, guard, pongs, signals, budget,
                   chats, ring, keep,
                   auth, strsrv, ext>>

\* ---------------------------------------------------------------- ping_task
\* One action is one iteration of the loop with one of its outcomes: the
\* tick, the Ping written to the sink, the wait for the pong notification.
\* The steps inside an iteration touch nothing another task reads, so the
\* iteration is taken at the moment of its last step.

\* Mutant: the first tick of the interval completes one period after its
\* creation (interval_at(now + period, period)).
tick_time_delayed(k) == k * PingPeriod

\* tokio::time::interval(period): the k-th tick completes (k - 1) periods
\* after the creation of the interval; the first one completes at once.
tick_time(k) == (k - 1) * PingPeriod

\* ping_interval.tick().await has completed and the Ping was written.
PingSent(s) ==
    /\ ticks' = [ticks EXCEPT ![s] = @ + 1]
    /\ firstPing' = [firstPing EXCEPT ![s] =
                        IF @ = NoPing THEN tick_time(ticks[s] + 1) ELSE @]

\* outgoing.send(Ping) fails: the task breaks out of the loop without calling
\* handle_disconnection
PingError(s) ==
    /\ pc[s]["ping"] = "tick"
    /\ faults > 0
    /\ faults' = faults - 1
    /\ Goto(s, "ping", "done")
    /\ ticks' = [ticks EXCEPT ![s] = @ + 1]
    /\ UNCHANGED <<clients, app, chan, locals, guard, pongs, signals, frames,
                   chats, ring, firstPing, auth, strsrv, ext>>

\* the Ping is sent and timeout(pong_timeout, pong_rx.recv()) = Ok(Some(())):
\* next iteration
PongRecv(s) ==
    /\ pc[s]["ping"] = "tick"
    /\ pongs[s] > 0
    /\ pongs' = [pongs EXCEPT ![s] = @ - 1]
    /\ PingSent(s)
    /\ UNCHANGED <<clients, app, chan, pc, locals, guard, signals, budget,
                   chats, ring, auth, strsrv, ext>>

\* The iteration in its steps, for what happens between the Ping and the
\* wait: ping_interval.tick().await has completed and the Ping was written
\* to the sink; next is timeout(pong_timeout, pong_rx.recv())
KeeperPing(s) ==
    /\ pc[s]["ping"] = "tick"
    /\ ticks[s] < MaxPings
    /\ PingSent(s)
    /\ stale' = [stale EXCEPT ![s] = pongs[s]]
    /\ Goto(s, "ping", "wait")
    /\ UNCHANGED <<clients, app, chan, locals, guard, pongs, signals, budget,
                   chats, ring, auth, strsrv, strchat, wrap, locks, cli>>

\* timeout(pong_timeout, pong_rx.recv()) = Ok(Some(())): the oldest
\* notification of the channel is taken; next iteration
KeeperPong(s) ==
    /\ pc[s]["ping"] = "wait"
    /\ pongs[s] > 0
    /\ pongs' = [pongs EXCEPT ![s] = @ - 1]
    /\ Goto(s, "ping", "tick")
    /\ UNCHANGED <<clients, app, chan, locals, guard, signals, budget,
                   chats, ring, keep, auth, strsrv, ext>>

\* the `_` arm: the timeout elapsed with no notification in the channel;
\* handle_disconnection is called
KeeperTimeout(s) ==
    /\ pc[s]["ping"] = "wait"
    /\ pongs[s] = 0
    /\ faults > 0
    /\ faults' = faults - 1
    /\ Goto(s, "ping", "hd")
    /\ UNCHANGED <<clients, app, chan, locals, guard, pongs, signals, frames,
                   chats, ring, keep, auth, strsrv, ext>>

\* Mutant: the `_` arm only logs and the loop goes on.
PongTimeoutIgnored(s) ==
    /\ pc[s]["ping"] = "tick"
    /\ pongs[s] = 0
    /\ faults > 0
    /\ faults' = faults - 1
    /\ PingSent(s)
    /\ UNCHANGED <<clients, app, chan, pc, locals, guard, pongs, signals, frames,
                   chats, ring, auth, strsrv, ext>>

\* the Ping is sent and the `_` arm is taken: the timeout elapsed with no pong
\* in the channel; handle_disconnection is called
PongTimeout(s) ==
    /\ pc[s]["ping"] = "tick"
    /\ pongs[s] = 0
    /\ faults > 0
    /\ faults' = faults - 1
    /\ Goto(s, "ping", "hd")
    /\ PingSent(s)
    /\ UNCHANGED <<clients, app, chan, locals, guard, pongs, signals, frames,
                   chats, ring, auth, strsrv, ext>>

\* ----------------------------------------------------- handle_disconnection
\* A task that returns from handle_disconnection has finished; send_task's
\* future then drops rx with whatever the queue still holds.
DropRx(q, s, t) == IF t = "send" THEN [q EXCEPT ![s] = <<>>] ELSE q

\* Mutant: handle_disconnection without the disconnect-once guard (neither the
\* wait for the mutex nor the test of the flag).
HdEnterUnguarded(s, t) ==
    /\ pc[s][t] = "hd"
    /\ handled' = [handled EXCEPT ![s] = TRUE]
    /\ hdLock' = [hdLock EXCEPT ![s] = t]
    /\ Goto(s, t, "td_name")
    /\ UNCHANGED <<clients, app, chan, locals, tdName, tdRuns, pongs, signals,
                   budget, chats, ring, keep,
                   auth, strsrv, ext>>

\* let mut handled = disconnect_handled.lock().await;
\* if *handled { return; }  *handled = true;
HdEnter(s, t) ==
    /\ pc[s][t] = "hd"
    /\ hdLock[s] = "free"
    /\ IF handled[s]
       THEN /\ Goto(s, t, "done")
            /\ queue' = DropRx(queue, s, t)
            /\ UNCHANGED <<handled, hdLock>>
       ELSE /\ handled' = [handled EXCEPT ![s] = TRUE]
            /\ hdLock' = [hdLock EXCEPT ![s] = t]
            /\ Goto(s, t, "td_name")
            /\ UNCHANGED queue
    /\ UNCHANGED <<clients, app, enq, sent, locals, tdName, tdRuns, pongs,
                   signals, budget, chats, ring, keep,
                   auth, strsrv, ext>>

\* let client_name = app.lock().await.get_connected_user(client_id).await
\*                      .unwrap().lock().await.username.clone()
TdName(s, t) ==
    /\ pc[s][t] = "td_name"
    /\ IF s \in DOMAIN users
       THEN /\ tdName' = [tdName EXCEPT ![s] = users[s].username]
            /\ Goto(s, t, "td_user")
            /\ UNCHANGED <<hdLock, queue>>
       ELSE /\ Panic(s, t)
            /\ hdLock' = [hdLock EXCEPT ![s] = IF @ = t THEN "free" ELSE @]
            /\ queue' = DropRx(queue, s, t)
            /\ UNCHANGED tdName
    /\ UNCHANGED <<clients, app, enq, sent, locals, handled, tdRuns, pongs,
                   signals, budget, chats, ring, keep,
                   auth, strsrv, ext>>

\* app.lock().await.remove_connected_user(client_id)
TdUser(s, t) ==
    /\ pc[s][t] = "td_user"
    /\ users' = remove_connected_user(users, s)
    /\ Goto(s, t, "td_client")
    /\ UNCHANGED <<clients, history, clock, chan, locals, guard, pongs, signals,
                   budget, chats, ring, keep,
                   auth, strsrv, ext>>

\* clients.lock().await.remove(client_id)
TdClient(s, t) ==
    /\ pc[s][t] = "td_client"
    /\ clients' = clients \ {s}
    /\ tdRuns' = [tdRuns EXCEPT ![s] = @ + 1]
    /\ Goto(s, t, "td_announce")
    /\ UNCHANGED <<app, chan, locals, handled, hdLock, tdName, pongs, signals,
                   budget, chats, ring, keep,
                   auth, strsrv, ext>>

\* for (_, tx) in clients.lock().await.iter() { let _ = tx.send(..) }
\* and the return, which releases the disconnect_handled guard
TdAnnounce(s, t) ==
    /\ pc[s][t] = "td_announce"
    /\ queue' = DropRx(FanOut(queue, DisconnectMessage(tdName[s], s)), s, t)
    /\ enq' = FanOut(enq, DisconnectMessage(tdName[s], s))
    /\ hdLock' = [hdLock EXCEPT ![s] = IF @ = t THEN "free" ELSE @]
    /\ Goto(s, t, "done")
    /\ UNCHANGED <<clients, app, sent, locals, handled, tdName, tdRuns, pongs,
                   signals, budget, chats, ring, keep,
                   auth, strsrv, ext>>

\* ------------------------------------------------------------ App history
\* A driver of App::add_message_to_history alone: under the app mutex some
\* reader appends the next chat message.  The message carries the rank of
\* the append, which is all that tells two messages apart here.
HistAppend ==
    /\ Len(appended) < MaxAppends
    /\ LET m == ChatMessage(DefaultName, "hi", 0, Len(appended) + 1)
       IN  /\ hist' = add_message_to_history(hist, m)
           /\ appended' = Append(appended, m)
    /\ UNCHANGED <<clients, app, chan, pc, locals, guard, pongs, signals,
                   budget, chats, keep, auth, strsrv, ext>>

\* --------------------------------------------------- authenticate_user
\* A driver of App::authenticate_user alone: a caller picks the arguments ...
Submit(username, password) ==
    /\ ncalls < MaxCalls
    /\ result # "pending"
    /\ cred' = [username |-> username, password |-> password]
    /\ result' = "pending"
    /\ UNCHANGED <<clients, app, chan, pc, locals, guard, pongs, signals,
                   budget, chats, ring, keep, authed, failed, ncalls,
                   strsrv, ext>>

\* ... and calls authenticate_user(&self, username, password)
AuthCall ==
    /\ result = "pending"
    /\ result' = IF authenticate_user(user_credentials, cred.username, cred.password)
                 THEN "true" ELSE "false"
    /\ ncalls' = ncalls + 1
    /\ UNCHANGED <<clients, app, chan, pc, locals, guard, pongs, signals,
                   budget, chats, ring, keep, authed, failed, cred,
                   strsrv, ext>>

\* ------------------------------------------- the string-protocol server
\* src/src/server/server.rs with the handle_command of
\* src/src/server/commander.rs: frames are plain strings, a text starting
\* with "/" is a command, and the clients map holds for every id the name
\* set by /name (None before) next to the sender of the id's channel.  A
\* string is the list of the pieces its format! call joins.
PrivateFrom(name, message) == <<"(Private message from ", name, "): ", message>>
PrivateTo(name, message)   == <<"(Private message to ", name, "): ", message>>
NotFound(name)             == <<"User '", name, "' not found.">>
Usage                      == <<"Usage: /whisper <name> <message>">>
NameSet(name)              == <<"Your name is now set to '", name, "'">>
InvalidName                == <<"Please provide a valid name.">>
HasDisconnected(name)      == <<name, " has disconnected.">>
ChatLine(name, text)       == <<name, ": ", text>>

StrGoto(p, l) == strPc' = [strPc EXCEPT ![p] = l]

\* tx.send(..).unwrap() on the channel of x: Err, hence a panic of the
\* calling task, once the rx of x was dropped
StrSend(x, m) == strSent' = [strSent EXCEPT ![x] = Append(@, m)]

\* send_to_client: if let Some((_, tx)) = clients.lock().await.get_mut(id)
\*                     { tx.send(message).unwrap(); }
send_to_client(p, m) ==
    IF p \notin DOMAIN strClients
    THEN /\ StrGoto(p, "read")
         /\ UNCHANGED strSent
    ELSE IF p \in strClosed
         THEN /\ StrGoto(p, "panicked")
              /\ UNCHANGED strSent
         ELSE /\ StrGoto(p, "read")
              /\ StrSend(p, m)

\* main: clients_guard.insert(client_id, (None, tx_original)); the tasks start
StrAccept(p) ==
    /\ strPc[p] = "off"
    /\ \A x \in Peers : x < p => strPc[x] # "off"
    /\ strClients' = [x \in DOMAIN strClients \cup {p} |->
                         IF x = p THEN None ELSE strClients[x]]
    /\ StrGoto(p, "replay")
    /\ UNCHANGED <<clients, app, chan, pc, locals, guard, pongs, signals,
                   budget, chats, ring, keep, auth, ext, strSent, strClosed, strOut,
                   strDm>>

\* main: for message in history.lock().await.iter()
\*           { tx_original.send(message.clone()).unwrap(); }
\* rx is still a local of the connection's task; then send_task and
\* recv_task are spawned
StrReplay(p) ==
    /\ strPc[p] = "replay"
    /\ strSent' = [strSent EXCEPT ![p] = @ \o strHistory]
    /\ StrGoto(p, "read")
    /\ UNCHANGED <<clients, app, chan, pc, locals, guard, pongs, signals,
                   budget, chats, ring, keep, auth, ext, strClients, strClosed,
                   strOut, strDm>>

\* recv_task, a text that does not start with "/": under the clients lock
\* the issuer's name is read, and broadcast_message is "{name}: {text}" with
\* the client_id for a name that was never set
StrChat(p, text) ==
    /\ strPc[p] = "read"
    /\ frames > 0
    /\ frames' = frames - 1
    /\ strMsg' = [strMsg EXCEPT ![p] =
                     ChatLine(IF strClients[p] = None THEN ToString(p)
                              ELSE strClients[p][1], text)]
    /\ StrGoto(p, "hist_len")
    /\ UNCHANGED <<clients, app, chan, pc, locals, guard, pongs, signals,
                   faults, chats, ring, keep, auth, strClients, strSent,
                   strClosed, strOut, strDm, strHistory, wrap, locks, stale, cli>>

\* recv_task, "Add to history": each of the three history.lock().await is a
\* lock of its own, released at the end of its expression:
\*     if history.lock().await.len() == 100 {
\*         history.lock().await.pop_front();
\*     }
\*     history.lock().await.push_back(broadcast_message.clone());
\* One step is one of these locks, at the position the reader has reached.
StrHistoryLock(p) ==
    /\ strPc[p] \in {"hist_len", "hist_pop", "hist_push"}
    /\ CASE strPc[p] = "hist_len" ->
              /\ StrGoto(p, IF Len(strHistory) = StrHistoryCap
                            THEN "hist_pop" ELSE "hist_push")
              /\ UNCHANGED strHistory
         [] strPc[p] = "hist_pop" ->
              /\ strHistory' = IF strHistory = <<>> THEN <<>>
                               ELSE Tail(strHistory)
              /\ StrGoto(p, "hist_push")
         [] strPc[p] = "hist_push" ->
              /\ strHistory' = Append(strHistory, strMsg[p])
              /\ StrGoto(p, "chat_fan")
    /\ UNCHANGED <<clients, app, chan, pc, locals, guard, pongs, signals,
                   budget, chats, ring, keep, auth, strClients, strSent,
                   strClosed, strOut, strDm, strMsg, wrap, locks, stale, cli>>

\* for (_, (_, tx)) in clients.lock().await.iter()
\*     { tx.send(m.clone()).unwrap(); }
\* the first entry whose rx was dropped ends the loop with a panic of the
\* calling task, after the entries iterated before it were sent the message
StrBroadcast(p, m, l) ==
    LET open == DOMAIN strClients \ strClosed
    IN  IF DOMAIN strClients \subseteq open
        THEN /\ strSent' = [x \in Peers |->
                               IF x \in open THEN Append(strSent[x], m)
                               ELSE strSent[x]]
             /\ StrGoto(p, l)
        ELSE /\ \E before \in SUBSET open :
                  strSent' = [x \in Peers |->
                                 IF x \in before THEN Append(strSent[x], m)
                                 ELSE strSent[x]]
             /\ StrGoto(p, "panicked")

\* recv_task, "Broadcast to all clients": the loop over the clients map
StrChatFan(p) ==
    /\ strPc[p] = "chat_fan"
    /\ StrBroadcast(p, strMsg[p], "read")
    /\ UNCHANGED <<clients, app, chan, pc, locals, guard, pongs, signals,
                   budget, chats, ring, keep, auth, ext, strClients, strClosed,
                   strOut, strDm>>

\* "/name <name>": an empty name is answered with InvalidName; otherwise the
\* entry of client_id is replaced by (Some(name), old_tx) and the App gets a
\* new UserInfo for the id.  (The two clients locks and the app lock are
\* taken one after the other; nothing here reads the App, and the first lock
\* only clones the issuer's own sender, so the three are one step.)
StrName(p, name) ==
    /\ strPc[p] = "read"
    /\ frames > 0
    /\ frames' = frames - 1
    /\ StrGoto(p, "reply")
    /\ IF name = ""
       THEN /\ strOut' = [strOut EXCEPT ![p] = InvalidName]
            /\ UNCHANGED <<strClients, app>>
       ELSE /\ strClients' = [strClients EXCEPT ![p] = Some(name)]
            /\ users' = add_connected_user(users, p, name, clock)
            /\ clock' = clock + 1
            /\ strOut' = [strOut EXCEPT ![p] = NameSet(name)]
            /\ UNCHANGED history
    /\ UNCHANGED <<clients, chan, pc, locals, guard, pongs, signals, faults,
                   chats, ring, keep, auth, ext, strSent, strClosed, strDm>>

\* the send_to_client call that ends an arm of handle_command
StrReply(p) ==
    /\ strPc[p] = "reply"
    /\ send_to_client(p, strOut[p])
    /\ UNCHANGED <<clients, app, chan, pc, locals, guard, pongs, signals,
                   budget, chats, ring, keep, auth, ext, strClients, strClosed,
                   strOut, strDm>>

\* The entries find() can yield first: iter() of a HashMap has no fixed order.
Recipients(recipient_name) ==
    {x \in DOMAIN strClients : strClients[x] = Some(recipient_name)}

\* "/dm <name> <message>": under the clients lock, the sender of the first
\* entry whose name is recipient_name is cloned; with no such entry the
\* issuer is told so
StrDm(p, recipient_name, message) ==
    /\ strPc[p] = "read"
    /\ frames > 0
    /\ frames' = frames - 1
    /\ IF Recipients(recipient_name) = {}
       THEN /\ strOut' = [strOut EXCEPT ![p] = NotFound(recipient_name)]
            /\ StrGoto(p, "reply")
            /\ UNCHANGED strDm
       ELSE /\ \E r \in Recipients(recipient_name) :
                 strDm' = [strDm EXCEPT ![p] =
                              [to |-> r, recipient_name |-> recipient_name,
                               message |-> message]]
            /\ StrGoto(p, "dm_send")
            /\ UNCHANGED strOut
    /\ UNCHANGED <<clients, app, chan, pc, locals, guard, pongs, signals,
                   faults, chats, ring, keep, auth, ext, strClients, strSent,
                   strClosed>>

\* Mutant: the private message goes to every entry of the clients map.
StrDmSendAll(p) ==
    /\ strPc[p] = "dm_send"
    /\ strSent' = [x \in Peers |->
                      IF x \in DOMAIN strClients
                      THEN Append(strSent[x],
                                  PrivateFrom(strDm[p].recipient_name, strDm[p].message))
                      ELSE strSent[x]]
    /\ strOut' = [strOut EXCEPT ![p] =
                     PrivateTo(strDm[p].recipient_name, strDm[p].message)]
    /\ StrGoto(p, "reply")
    /\ UNCHANGED <<clients, app, chan, pc, locals, guard, pongs, signals,
                   budget, chats, ring, keep, auth, ext, strClients, strClosed,
                   strDm>>

\* Some(tx) => tx.send(format!("(Private message from {}): {}",
\*                             recipient_name, message)).unwrap();
\* then the echo is handed to send_to_client
StrDmSend(p) ==
    /\ strPc[p] = "dm_send"
    /\ IF strDm[p].to \in strClosed
       THEN /\ StrGoto(p, "panicked")
            /\ UNCHANGED <<strSent, strOut>>
       ELSE /\ StrSend(strDm[p].to,
                       PrivateFrom(strDm[p].recipient_name, strDm[p].message))
            /\ strOut' = [strOut EXCEPT ![p] =
                             PrivateTo(strDm[p].recipient_name, strDm[p].message)]
            /\ StrGoto(p, "reply")
    /\ UNCHANGED <<clients, app, chan, pc, locals, guard, pongs, signals,
                   budget, chats, ring, keep, auth, ext, strClients, strClosed,
                   strDm>>

\* "/dm" with fewer than two arguments
StrDmUsage(p) ==
    /\ strPc[p] = "read"
    /\ frames > 0
    /\ frames' = frames - 1
    /\ strOut' = [strOut EXCEPT ![p] = Usage]
    /\ StrGoto(p, "reply")
    /\ UNCHANGED <<clients, app, chan, pc, locals, guard, pongs, signals,
                   faults, chats, ring, keep, auth, ext, strClients, strSent,
                   strClosed, strDm>>

\* send_task: outgoing.send(Message::Text(message)) fails for a message of
\* the channel; the loop breaks and rx is dropped, the entry stays in the map
StrWriterEnds(p) ==
    /\ strPc[p] \notin {"off", "replay"}
    /\ p \notin strClosed
    /\ strSent[p] # <<>>
    /\ faults > 0
    /\ faults' = faults - 1
    /\ strClosed' = strClosed \cup {p}
    /\ UNCHANGED <<clients, app, chan, pc, locals, guard, pongs, signals,
                   frames, chats, ring, keep, auth, ext, strClients, strSent, strPc,
                   strOut, strDm>>

\* recv_task: incoming.next() yields no text frame; handle_disconnect removes
\* the entry under the clients lock and builds the announcement with the
\* name, or with the id if no name was set
StrEnd(p) ==
    /\ strPc[p] = "read"
    /\ faults > 0
    /\ faults' = faults - 1
    /\ strClients' = [x \in DOMAIN strClients \ {p} |-> strClients[x]]
    /\ strOut' = [strOut EXCEPT ![p] =
                     HasDisconnected(IF strClients[p] = None THEN ToString(p)
                                     ELSE strClients[p][1])]
    /\ StrGoto(p, "announce")
    /\ UNCHANGED <<clients, app, chan, pc, locals, guard, pongs, signals,
                   frames, chats, ring, keep, auth, ext, strSent, strClosed, strDm>>

\* handle_disconnect: for (_, (_, tx)) in clients.lock().await.iter()
\*                        { tx.send(disconnect_message.clone()).unwrap(); }
\* the first entry whose rx was dropped ends the loop with a panic, after the
\* entries iterated before it were sent the message
StrAnnounce(p) ==
    /\ strPc[p] = "announce"
    /\ StrBroadcast(p, strOut[p], "done")
    /\ UNCHANGED <<clients, app, chan, pc, locals, guard, pongs, signals,
                   budget, chats, ring, keep, auth, ext, strClients, strClosed,
                   strOut, strDm>>

\* the concatenation of a sequence of sequences
RECURSIVE Flat(_)
Flat(seqs) == IF seqs = <<>> THEN <<>> ELSE Head(seqs) \o Flat(Tail(seqs))

\* ------------------------------------------------------------- the mutexes
\* The server again, at the grain of its mutexes: every operation is the
\* list of the lock and unlock steps its code makes, in the order of the
\* code, with what is done under the guard where that changes who is
\* registered.  A guard that is a temporary of a statement is dropped at the
\* end of the statement, a named guard at the end of its block.  A statement
\* that takes one mutex, requests no other while it holds it, and drops it is
\* one step (Section); the sends of a fan-out are a step of their own.
AppMutex   == <<"app", 0>>
ClientsMutex == <<"clients", 0>>
UserMutex(s) == <<"user", s>>
FlagMutex(s) == <<"flag", s>>
SinkMutex(s) == <<"sink", s>>

Lock(m, what)    == [op |-> "lock", m |-> m, what |-> what]
Section(m, what) == [op |-> "section", m |-> m, what |-> what]
Unlock(m)        == [op |-> "unlock", m |-> m, what |-> "none"]
SendAll          == [op |-> "send_all", m |-> ClientsMutex, what |-> "none"]

\* handle_connection: insert into clients, add_connected_user, the history
\* snapshot
register_code(s) ==
    <<Section(ClientsMutex, "insert"), Section(AppMutex, "add_user"),
      Section(AppMutex, "none")>>

\* Mutant: the history is appended while the clients guard is held.
chat_code_nested(s) ==
    <<Lock(AppMutex, "unwrap_user"), Section(UserMutex(s), "none"),
      Unlock(AppMutex),
      Lock(ClientsMutex, "none"), Section(AppMutex, "none"), SendAll,
      Unlock(ClientsMutex)>>

\* handle_incoming_message, ChatMessage: the username under the app and the
\* user guard, the history under the app guard, then clients_lock held over
\* the sends and the removals
chat_code(s) ==
    <<Lock(AppMutex, "unwrap_user"), Section(UserMutex(s), "none"),
      Unlock(AppMutex),
      Section(AppMutex, "none"),
      Lock(ClientsMutex, "none"), SendAll, Unlock(ClientsMutex)>>

\* handle_command "name": update_username under the app guard locks the
\* UserInfo if the id is connected; the reply under the clients guard
name_code(s) ==
    <<Lock(AppMutex, "if_user"), Section(UserMutex(s), "none"),
      Unlock(AppMutex),
      Section(ClientsMutex, "unwrap_client")>>

\* handle_command "list": app_lock lives to the end of the arm; every
\* UserInfo is locked in turn; the reply under the clients guard
list_code(s) ==
    <<Lock(AppMutex, "each_user"), Section(ClientsMutex, "none"),
      Unlock(AppMutex)>>

\* handle_command, any other name: the reply under the clients guard
unknown_code(s) == <<Section(ClientsMutex, "none")>>

\* handle_disconnection: the flag guard lives to the return
handle_disconnection_code(s) ==
    <<Lock(FlagMutex(s), "guard"),
      Lock(AppMutex, "unwrap_user"), Section(UserMutex(s), "none"),
      Unlock(AppMutex),
      Section(AppMutex, "remove_user"),
      Section(ClientsMutex, "remove"),
      Lock(ClientsMutex, "none"), SendAll, Unlock(ClientsMutex),
      Unlock(FlagMutex(s))>>

\* send_task and ping_task: outgoing_lock around the write of one frame
sink_code(s) == <<Section(SinkMutex(s), "none")>>

Run(s, t, code) == script' = [script EXCEPT ![s][t] = code]

LkRegister(s) ==
    /\ pc[s]["main"] = "idle"
    /\ \A x \in Sessions : x < s => pc[x]["main"] # "idle"
    /\ Goto(s, "main", "register")
    /\ Run(s, "main", register_code(s))
    /\ UNCHANGED <<clients, app, chan, locals, guard, pongs, signals, budget,
                   chats, ring, keep, auth, strsrv, strchat, wrap, mtx, lkOps, stale, cli>>

\* the three tasks are spawned and handle_connection waits in select!
LkSpawn(s) ==
    /\ pc[s]["main"] = "register"
    /\ script[s]["main"] = <<>>
    /\ pc' = [pc EXCEPT ![s] = [main |-> "select", ping |-> "tick",
                                send |-> "write", recv |-> "read"]]
    /\ UNCHANGED <<clients, app, chan, locals, guard, pongs, signals, budget,
                   chats, ring, keep, auth, strsrv, ext>>

\* a task at rest begins its next operation: the reader handles a frame, the
\* writer writes a message, the keeper writes a Ping
LkBegin(s, t, code) ==
    /\ script[s][t] = <<>>
    /\ lkOps < MaxLockOps
    /\ lkOps' = lkOps + 1
    /\ \/ /\ t = "recv" /\ pc[s][t] = "read"
          /\ code \in {chat_code(s), name_code(s), list_code(s), unknown_code(s)}
       \/ /\ t = "send" /\ pc[s][t] = "write"
          /\ code = sink_code(s)
       \/ /\ t = "ping" /\ pc[s][t] = "tick"
          /\ code = sink_code(s)
    /\ Run(s, t, code)
    /\ UNCHANGED <<base, strchat, wrap, mtx, stale, cli>>

\* a task leaves its loop, or select! returns, and handle_disconnection is
\* called
LkDisconnect(s, t) ==
    /\ script[s][t] = <<>>
    /\ pc[s][t] \in {"select", "read", "write", "tick"}
    /\ lkOps < MaxLockOps
    /\ lkOps' = lkOps + 1
    /\ Goto(s, t, "hd")
    /\ Run(s, t, handle_disconnection_code(s))
    /\ UNCHANGED <<clients, app, chan, locals, guard, pongs, signals, budget,
                   chats, ring, keep, auth, strsrv, strchat, wrap, mtx, stale, cli>>

\* What task t of session s does under the guard it has just been granted,
\* the mutexes being held as in held afterwards: who is registered changes;
\* an unwrap of None panics, which drops every guard of the task; the rest
\* of the code is chosen where it depends on what the guard protects.
Under(s, t, what, held, rest) ==
    /\ clients' = CASE what = "insert" -> clients \cup {s}
                    [] what = "remove" -> clients \ {s}
                    [] OTHER -> clients
    /\ users' = CASE what = "add_user" ->
                        add_connected_user(users, s, DefaultName, clock)
                  [] what = "remove_user" -> remove_connected_user(users, s)
                  [] OTHER -> users
    /\ clock' = IF what = "add_user" THEN clock + 1 ELSE clock
    /\ handled' = IF what = "guard" THEN [handled EXCEPT ![s] = TRUE]
                  ELSE handled
    /\ IF \/ what = "unwrap_user" /\ s \notin DOMAIN users
          \/ what = "unwrap_client" /\ s \notin clients
       THEN /\ mtx' = [m \in Mutexes |->
                          IF held[m] = <<s, t>> THEN Free ELSE held[m]]
            /\ Run(s, t, <<>>)
            /\ Goto(s, t, "panicked")
       ELSE /\ mtx' = held
            /\ UNCHANGED pc
            /\ Run(s, t,
                   CASE what = "guard" /\ handled[s] -> <<Unlock(FlagMutex(s))>>
                     [] what = "if_user" /\ s \notin DOMAIN users -> Tail(rest)
                     [] what = "each_user" ->
                          LET order == CHOOSE f \in Orders(DOMAIN users) : TRUE
                          IN  [i \in 1..Len(order) |->
                                  Section(UserMutex(order[i]), "none")] \o rest
                     [] OTHER -> rest)
    /\ UNCHANGED <<history, chan, locals, hdLock, tdName, tdRuns, pongs, signals,
                   budget, chats, ring, keep, auth, strsrv, strchat, wrap, lkOps, stale, cli>>

\* m.lock().await for a guard that outlives the statement: granted when no
\* task holds m
LkLock(s, t) ==
    /\ script[s][t] # <<>>
    /\ Head(script[s][t]).op = "lock"
    /\ mtx[Head(script[s][t]).m] = Free
    /\ Under(s, t, Head(script[s][t]).what,
             [mtx EXCEPT ![Head(script[s][t]).m] = <<s, t>>],
             Tail(script[s][t]))

\* m.lock().await in a statement that requests no other mutex: granted when
\* no task holds m, and dropped at the end of the statement
LkSection(s, t) ==
    /\ script[s][t] # <<>>
    /\ Head(script[s][t]).op = "section"
    /\ mtx[Head(script[s][t]).m] = Free
    /\ Under(s, t, Head(script[s][t]).what, mtx, Tail(script[s][t]))

\* the guard is dropped
LkUnlock(s, t) ==
    /\ script[s][t] # <<>>
    /\ Head(script[s][t]).op = "unlock"
    /\ mtx' = [mtx EXCEPT ![Head(script[s][t]).m] = Free]
    /\ Run(s, t, Tail(script[s][t]))
    /\ UNCHANGED <<base, strchat, wrap, lkOps, stale, cli>>

\* the sends of a fan-out: tx.send for every entry of the clients map
LkSendAll(s, t) ==
    /\ script[s][t] # <<>>
    /\ Head(script[s][t]).op = "send_all"
    /\ Run(s, t, Tail(script[s][t]))
    /\ UNCHANGED <<base, strchat, wrap, mtx, lkOps, stale, cli>>

InitLocks == InitWith(0, 0)

NextLocks ==
    \E s \in Sessions :
        \/ LkRegister(s) \/ LkSpawn(s)
        \/ \E t \in Tasks :
              \/ \E code \in {chat_code(s), name_code(s), list_code(s),
                               unknown_code(s), sink_code(s)} :
                    LkBegin(s, t, code)
              \/ LkDisconnect(s, t)
              \/ LkLock(s, t) \/ LkSection(s, t) \/ LkUnlock(s, t)
              \/ LkSendAll(s, t)

SpecLocks == InitLocks /\ [][NextLocks]_vars

\* --------------------------------------------------- the client's wrap_text
\* src/src/client/ui.rs.  A string is the sequence of its characters, all
\* of them one byte long, so that String::len is Len.
Letters    == {"a", "b"}
Whitespace == {" ", "\t", "\n"}
Chars      == Letters \cup Whitespace

\* str::split(c): the pieces between the occurrences of c, empty ones kept
RECURSIVE split(_, _)
split(text, c) ==
    IF \A i \in 1..Len(text) : text[i] # c
    THEN <<text>>
    ELSE LET i == CHOOSE k \in 1..Len(text) :
                    text[k] = c /\ \A j \in 1..(k - 1) : text[j] # c
         IN  <<SubSeq(text, 1, i - 1)>> \o split(SubSeq(text, i + 1, Len(text)), c)

\* str::split_whitespace: the maximal runs of non-whitespace characters
RECURSIVE split_whitespace(_)
split_whitespace(line) ==
    IF line = <<>> THEN <<>>
    ELSE IF Head(line) \in Whitespace THEN split_whitespace(Tail(line))
    ELSE LET n == CHOOSE k \in 1..Len(line) :
                    /\ \A j \in 1..k : line[j] \notin Whitespace
                    /\ k = Len(line) \/ line[k + 1] \in Whitespace
         IN  <<SubSeq(line, 1, n)>>
                 \o split_whitespace(SubSeq(line, n + 1, Len(line)))

\* Mutant: the space that would join the word to the line is counted.
exceeds_with_space(new_line, word, max_width) ==
    Len(new_line) + 1 + Len(word) > max_width

\* if new_line.len() + word.len() > max_width
exceeds(new_line, word, max_width) ==
    Len(new_line) + Len(word) > max_width

\* the loop over the words of one line and the lines.push(new_line) after it
RECURSIVE wrap_words(_, _, _)
wrap_words(words, new_line, max_width) ==
    IF words = <<>> THEN <<new_line>>
    ELSE LET word == Head(words)
         IN  IF exceeds(new_line, word, max_width)
             THEN <<new_line>> \o wrap_words(Tail(words), word, max_width)
             ELSE wrap_words(Tail(words),
                             (IF new_line # <<>> THEN Append(new_line, " ")
                              ELSE new_line) \o word,
                             max_width)

RECURSIVE wrap_lines(_, _)
wrap_lines(lines, max_width) ==
    IF lines = <<>> THEN <<>>
    ELSE wrap_words(split_whitespace(Head(lines)), <<>>, max_width)
             \o wrap_lines(Tail(lines), max_width)

wrap_text(text, max_width) == wrap_lines(split(text, "\n"), max_width)

RECURSIVE Texts(_)
Texts(n) ==
    IF n = 0 THEN {<<>>}
    ELSE LET shorter == Texts(n - 1)
         IN  shorter \cup {Append(t, c) : t \in {u \in shorter : Len(u) = n - 1},
                                          c \in Chars}

InitWrap ==
    /\ InitServers(0, 0)
    /\ mtx = [m \in Mutexes |-> Free]
    /\ script = [s \in Sessions |-> [t \in Tasks |-> <<>>]]
    /\ lkOps = 0
    /\ wtText \in Texts(MaxText)
    /\ wtWidth \in 0..MaxWidth
    /\ wtLines = None

\* let result = wrap_text(text, max_width);
WrapCall ==
    /\ wtLines = None
    /\ wtLines' = Some(wrap_text(wtText, wtWidth))
    /\ UNCHANGED <<base, strchat, wtText, wtWidth, locks, stale, cli>>

SpecWrap == InitWrap /\ [][WrapCall]_vars

\* ----------------------------------------------------- the client's login
\* src/crates/client/src: App::handle_websocket_message as called by
\* handle_websocket for every text frame of the server, with the key presses
\* that connect.  failed_login_attempts is a u8: an addition or subtraction
\* that leaves 0..255 panics in a build with overflow checks and wraps in a
\* build without.
ServerMessages ==
    {"Authentication successful", "Authentication failed", "other", "chat"}

\* ServerSelection, Enter: connect_to_server, then the login screen; the
\* counter is left as it is
CliSelectServer ==
    /\ ~crashed
    /\ current_screen = "ServerSelection"
    /\ connected' = TRUE
    /\ current_screen' = "LoggingIn"
    /\ UNCHANGED <<base, strchat, wrap, locks, stale, failed_login_attempts,
                   remaining_attempts, crashed, nmsgs>>

\* Disconnected, 'r': connect_to_server, then the main screen
CliReconnect ==
    /\ ~crashed
    /\ current_screen = "Disconnected"
    /\ connected' = TRUE
    /\ current_screen' = "Main"
    /\ UNCHANGED <<base, strchat, wrap, locks, stale, failed_login_attempts,
                   remaining_attempts, crashed, nmsgs>>

\* handle_websocket: Close, an error or the end of the stream
CliStreamEnds ==
    /\ ~crashed
    /\ connected
    /\ connected' = FALSE
    /\ current_screen' = "Disconnected"
    /\ UNCHANGED <<base, strchat, wrap, locks, stale, failed_login_attempts,
                   remaining_attempts, crashed, nmsgs>>

\* self.failed_login_attempts = 0
on_success == 0

\* handle_websocket_message(message) for a text frame of the server
CliMessage(message) ==
    /\ ~crashed
    /\ connected
    /\ nmsgs < MaxServerMsgs
    /\ nmsgs' = nmsgs + 1
    /\ UNCHANGED connected
    /\ CASE message = "Authentication successful" ->
              /\ current_screen' = "Main"
              /\ failed_login_attempts' = on_success
              /\ UNCHANGED <<remaining_attempts, crashed>>
         [] message = "Authentication failed" ->
              LET attempts == failed_login_attempts + 1
              IN  IF attempts > 255
                  THEN \* failed_login_attempts += 1 overflows
                       \/ /\ crashed' = TRUE
                          /\ UNCHANGED <<failed_login_attempts,
                                         remaining_attempts, current_screen>>
                       \/ /\ failed_login_attempts' = attempts % 256
                          /\ remaining_attempts' = Some(AuthLimit - (attempts % 256))
                          /\ current_screen' = "LoggingIn"
                          /\ UNCHANGED crashed
                  ELSE IF AuthLimit - attempts < 0
                  THEN \* 5 - self.failed_login_attempts underflows
                       \/ /\ crashed' = TRUE
                          /\ failed_login_attempts' = attempts
                          /\ UNCHANGED <<remaining_attempts, current_screen>>
                       \/ /\ failed_login_attempts' = attempts
                          /\ remaining_attempts' =
                                 Some((AuthLimit - attempts) % 256)
                          /\ current_screen' = "Disconnected"
                          /\ UNCHANGED crashed
                  ELSE /\ failed_login_attempts' = attempts
                       /\ remaining_attempts' = Some(AuthLimit - attempts)
                       /\ current_screen' = IF attempts >= AuthLimit
                                            THEN "Disconnected" ELSE "LoggingIn"
                       /\ UNCHANGED crashed
         [] OTHER ->
              UNCHANGED <<failed_login_attempts, current_screen,
                          remaining_attempts, crashed>>
    /\ UNCHANGED <<base, strchat, wrap, locks, stale>>

InitClient == InitWith(0, 0)

NextClient ==
    \/ CliSelectServer \/ CliReconnect \/ CliStreamEnds
    \/ \E message \in ServerMessages : CliMessage(message)

SpecClient == InitClient /\ [][NextClient]_vars

\* ----------------------------------------------------------- specifications
\* The steps the server takes by itself.
Server(s) ==
    \/ Accept(s)
    \/ JoinInsert(s) \/ JoinAddUser(s) \/ JoinSnapshot(s)
    \/ JoinReplay(s) \/ JoinSpawn(s) \/ MainSelect(s)
    \/ Write(s) \/ WriterClosed(s)
    \/ \E t \in Tasks :
         \/ HdEnter(s, t) \/ TdName(s, t) \/ TdUser(s, t)
         \/ TdClient(s, t) \/ TdAnnounce(s, t)

\* A client sends a ChatMessage.
Chat(s) ==
    \/ \E sender \in ClientSenders, content \in Contents :
         RecvChat(s, sender, content)
    \/ ChatHist(s) \/ ChatFan(s)

\* A client sends a name command.
Rename(s) == (\E n \in NewNames : RecvName(s, n)) \/ NameSend(s)

\* A client sends a text frame that is no MessageType.
Malformed(s) == RecvInvalid(s) \/ LogInvalid(s)

\* A client sends another command or a frame the reader ignores.
Other(s) ==
    \/ RecvList(s) \/ ListSend(s) \/ RecvUnknown(s) \/ UnknownSend(s)
    \/ RecvIgnored(s) \/ Malformed(s)

\* A client sends a Pong; the keeper takes it.
Pong(s) == RecvPong(s) \/ PongSend(s) \/ PongRecv(s)

\* The transport fails or the keep-alive times out.
Fault(s) == RecvEnd(s) \/ WriteError(s) \/ PingError(s) \/ PongTimeout(s)

Init == InitWith(MaxFrames, MaxFaults)

\* The actions of the connections, under the smallest budget.
Next ==
    \/ AcceptorSubscribe \/ AcceptorStop \/ Shutdown
    \/ \E s \in Sessions :
         Server(s) \/ Chat(s) \/ Rename(s) \/ Other(s) \/ Pong(s) \/ Fault(s)

Spec == Init /\ [][Next]_vars

\* Teardown races: every kind of fault and the shutdown, with chat traffic.
InitTeardown == InitWith(TdFrames, TdFaults)

NextTeardown ==
    \/ AcceptorSubscribe \/ AcceptorStop \/ Shutdown
    \/ \E s \in Sessions : Server(s) \/ Chat(s) \/ Fault(s)

SpecTeardown == InitTeardown /\ [][NextTeardown]_vars

\* handle_disconnection as run by task t of session s.
Teardown(s, t) ==
    \/ HdEnter(s, t) \/ TdName(s, t) \/ TdUser(s, t)
    \/ TdClient(s, t) \/ TdAnnounce(s, t)

\* The teardown environment under fair scheduling: the runtime polls every
\* task that can run, and tokio's Mutex hands the lock over in FIFO order,
\* so handle_connection leaves its select! once an arm is ready and a task
\* inside handle_disconnection takes its next step.
InitLive == InitWith(LiveFrames, LiveFaults)

SpecLive ==
    /\ InitLive
    /\ [][NextTeardown]_vars
    /\ \A s \in Sessions :
         /\ WF_vars(MainSelect(s))
         /\ \A t \in Tasks : WF_vars(Teardown(s, t))

\* Chat traffic: chat messages and renames, while a keep-alive timeout can
\* tear a session down under its running reader.
InitChat == InitWith(ChatFrames, ChatFaults)

NextChat ==
    \/ AcceptorSubscribe
    \/ \E s \in Sessions : Server(s) \/ Chat(s) \/ Rename(s) \/ PongTimeout(s)

SpecChat == InitChat /\ [][NextChat]_vars

\* The keep-alive: clients answer Pings or not, with chat traffic, under the
\* fair scheduling of SpecLive.
InitKeep == InitWith(KeepFrames, KeepFaults)

NextKeep ==
    \/ AcceptorSubscribe
    \/ \E s \in Sessions : Server(s) \/ Chat(s) \/ Pong(s) \/ PongTimeout(s)

SpecKeep ==
    /\ InitKeep
    /\ [][NextKeep]_vars
    /\ \A s \in Sessions :
         /\ WF_vars(MainSelect(s))
         /\ \A t \in Tasks : WF_vars(Teardown(s, t))

\* The keep-alive step by step: clients send Pongs, asked for or not, and
\* the keeper writes its Pings and waits.
InitPong == InitWith(PongFrames, PongFaults)

NextPong ==
    \/ AcceptorSubscribe
    \/ \E s \in Sessions :
         \/ Server(s) \/ Chat(s) \/ RecvPong(s) \/ PongSend(s)
         \/ KeeperPing(s) \/ KeeperPong(s) \/ KeeperTimeout(s)

SpecPong == InitPong /\ [][NextPong]_vars

\* Connections without faults: clients join, submit credentials and chat.
Connect(s) ==
    \/ Accept(s)
    \/ JoinInsert(s) \/ JoinAddUser(s) \/ JoinSnapshot(s)
    \/ JoinReplay(s) \/ JoinSpawn(s)
    \/ Write(s)

Credentials(s) ==
    \E username \in Usernames, password \in Passwords :
        RecvCredentials(s, username, password)

InitAuth == InitWith(AuthFrames, 0)

NextAuth ==
    \/ AcceptorSubscribe
    \/ \E s \in Sessions : Connect(s) \/ Chat(s) \/ Credentials(s)

SpecAuth == InitAuth /\ [][NextAuth]_vars

\* Text frames without faults: chat messages and text that does not decode.
InitText == InitWith(TextFrames, 0)

NextText ==
    \/ AcceptorSubscribe
    \/ \E s \in Sessions : Connect(s) \/ Chat(s) \/ Malformed(s)

SpecText == InitText /\ [][NextText]_vars

\* Commands without faults: clients join, chat, rename themselves (to an
\* empty name too), list the users and send commands the server does not know.
Command(s) ==
    \/ \E new_name \in CmdNames : RecvName(s, new_name)
    \/ NameSend(s)
    \/ RecvList(s) \/ ListSend(s)
    \/ RecvUnknown(s) \/ UnknownSend(s)

InitCmd == InitWith(CmdFrames, 0)

NextCmd ==
    \/ AcceptorSubscribe
    \/ \E s \in Sessions : Connect(s) \/ Chat(s) \/ Command(s)

SpecCmd == InitCmd /\ [][NextCmd]_vars

\* Commands and chat messages while a keep-alive timeout can tear a session
\* down under its running reader.
InitGone == InitWith(GoneFrames, GoneFaults)

NextGone ==
    \/ AcceptorSubscribe
    \/ \E s \in Sessions :
         Server(s) \/ Chat(s) \/ Command(s) \/ PongTimeout(s)

SpecGone == InitGone /\ [][NextGone]_vars

\* The string-protocol server: clients connect, name themselves, send
\* private messages; a writer can fail and a reader can meet the end of its
\* stream.
StrCommand(p) ==
    \/ \E name \in PeerNames \cup {""} : StrName(p, name)
    \/ \E recipient_name \in PeerNames, message \in Contents :
         StrDm(p, recipient_name, message)
    \/ StrDmSend(p) \/ StrDmUsage(p) \/ StrReply(p)

InitDm == InitWith(DmFrames, DmFaults)

NextDm ==
    \E p \in Peers :
        \/ StrAccept(p) \/ StrReplay(p) \/ StrCommand(p)
        \/ StrWriterEnds(p) \/ StrEnd(p) \/ StrAnnounce(p)

SpecDm == InitDm /\ [][NextDm]_vars

\* The string-protocol server with chat: clients connect, chat, lose their
\* writer or end their stream.
InitStr == InitWith(StrFrames, StrFaults)

NextStr ==
    \E p \in Peers :
        \/ StrAccept(p) \/ StrReplay(p)
        \/ \E text \in Contents : StrChat(p, text)
        \/ StrHistoryLock(p) \/ StrChatFan(p)
        \/ StrWriterEnds(p) \/ StrEnd(p) \/ StrAnnounce(p)

SpecStr == InitStr /\ [][NextStr]_vars

\* The history of the string-protocol server filled by two clients: the
\* first chats from the start, the second joins in when the history is
\* about to be full.
Chatters == {1, 2}

InitStrHist == InitWith(StrHistFrames, 0)

NextStrHist ==
    \E p \in Chatters :
        \/ StrAccept(p) \/ StrReplay(p)
        \/ /\ p = 1 \/ Len(strHistory) >= StrHistoryCap - 1
           /\ \E text \in Contents : StrChat(p, text)
        \/ StrHistoryLock(p) \/ StrChatFan(p)

SpecStrHist == InitStrHist /\ [][NextStrHist]_vars

\* The credential check alone.
NextCred ==
    \/ \E username \in Usernames, password \in Passwords : Submit(username, password)
    \/ AuthCall

SpecCred == InitWith(0, 0) /\ [][NextCred]_vars

\* The history ring alone.
NextHistory == HistAppend

SpecHistory == InitWith(0, 0) /\ [][NextHistory]_vars

\* ------------------------------------------------------------------ claims
TdSteps == {"td_name", "td_user", "td_client", "td_announce"}

IsDisconnect(m, s) ==
    /\ m.kind = "SystemMessage"
    /\ m.about = s
    /\ Len(m.text) = 2
    /\ m.text[2] = " has disconnected."

\* How many "<username> has disconnected." announcements about s are in q.
Announcements(q, s) == Cardinality({i \in 1..Len(q) : IsDisconnect(q[i], s)})

\* The first call of handle_disconnection for s has returned.
TornDown(s) == handled[s] /\ hdLock[s] = "free"

\* The queue of a session is closed only after the session left the clients map.
ClosedNeverInClients == \A id \in clients : RxOpen(id)

\* C1: for every session, whatever the interleaving of the reader, the writer,
\* the keeper and handle_connection's own call, the body of
\* handle_disconnection runs at most once: the removal step is executed at
\* most once and at most one task is inside the body.
TeardownAtMostOnce ==
    \A s \in Sessions :
        /\ tdRuns[s] <= 1
        /\ Cardinality({t \in Tasks : pc[s][t] \in TdSteps}) <= 1

\* C1 witness: all four tasks of a session have finished (the reader, the
\* writer and handle_connection each through a call of handle_disconnection)
\* and the removal ran once.
TeardownRacedWitness ==
    \E s \in Sessions :
        /\ tdRuns[s] = 1
        /\ \A t \in Tasks : pc[s][t] = "done"

\* C2: teardown is idempotent.  A call of handle_disconnection that finds the
\* flag set changes neither the clients map, the user table, the history nor
\* what any session was sent; once the first call has returned the session
\* stays out of both tables; at the moment the first call returns every
\* session in the clients map has been sent the announcement exactly once; no
\* session is ever sent it twice and the departed session never.
TeardownIdempotent ==
    [][ /\ \A s \in Sessions :
             /\ TornDown(s)' => (s \notin clients' /\ s \notin DOMAIN users')
             /\ Announcements(enq'[s], s) = 0
             /\ \A r \in Sessions : Announcements(enq'[r], s) <= 1
             /\ (~TornDown(s) /\ TornDown(s)') =>
                    \A r \in clients' : Announcements(enq'[r], s) = 1
             /\ \A t \in Tasks :
                    (pc[s][t] = "hd" /\ handled[s] /\ pc'[s][t] # "hd") =>
                        /\ UNCHANGED <<clients, users, history, enq, sent>>
                        /\ queue' = DropRx(queue, s, t)
      ]_vars

\* C2 witness: handle_connection and the writer of s have both returned from
\* handle_disconnection (so one of them found the flag set) and another
\* session holds exactly one announcement.
SecondCallWitness ==
    \E s \in Sessions, r \in Sessions :
        /\ r # s
        /\ TornDown(s)
        /\ pc[s]["main"] = "done" /\ pc[s]["send"] = "done"
        /\ r \in clients
        /\ Announcements(enq[r], s) = 1

\* C4: a step removes a session from the clients map only if it is that
\* session's own removal step or the session's queue is closed, and from the
\* user table only in that session's own teardown; a task of a session ends
\* only in a step of that session; a fan-out (chat or announcement) appends
\* to the queue of every entry of the clients map whose queue is open.
SiblingsUnaffected ==
    [][ /\ \A r \in Sessions :
             /\ (r \in clients /\ r \notin clients') =>
                    \/ ~RxOpen(r)
                    \/ \E t \in Tasks : pc[r][t] = "td_client" /\ pc'[r][t] = "td_announce"
             /\ (r \in DOMAIN users /\ r \notin DOMAIN users') =>
                    \E t \in Tasks : pc[r][t] = "td_user" /\ pc'[r][t] = "td_client"
             /\ \A t \in Tasks :
                    (~Ended(r, t) /\ Ended(r, t)') =>
                        \A x \in Sessions \ {r} : pc'[x] = pc[x]
        /\ \A s \in Sessions :
             /\ (pc[s]["recv"] = "chat_fan" /\ pc'[s]["recv"] # "chat_fan") =>
                    \A r \in clients : RxOpen(r) => enq'[r] = Append(enq[r], rd[s])
             /\ \A t \in Tasks :
                    (pc[s][t] = "td_announce" /\ pc'[s][t] # "td_announce") =>
                        \A r \in clients :
                            RxOpen(r) => enq'[r] = Append(enq[r], DisconnectMessage(tdName[s], s))
      ]_vars

\* C4 witness: s has been torn down while r is still in both tables with its
\* four tasks running, and r was sent the announcement.
SiblingAliveWitness ==
    \E s \in Sessions, r \in Sessions :
        /\ r # s
        /\ TornDown(s) /\ tdRuns[s] = 1
        /\ r \in clients /\ r \in DOMAIN users
        /\ pc[r]["main"] = "select" /\ pc[r]["recv"] = "read"
        /\ pc[r]["send"] = "recv" /\ pc[r]["ping"] = "tick"
        /\ Announcements(enq[r], s) = 1
        /\ Len(history) = 1

\* A teardown of s has been triggered: its reader left the loop, its writer
\* met a write error, its keeper timed out or could not send the Ping, or
\* handle_connection holds the shutdown signal or has left its select!.
Triggered(s) ==
    \/ pc[s]["recv"] = "hd"
    \/ pc[s]["send"] = "hd"
    \/ pc[s]["ping"] \in {"hd", "done"}
    \/ pc[s]["main"] = "hd"
    \/ pc[s]["main"] = "select" /\ sig[s]

\* s is out of both tables and every session in the clients map holds the
\* announcement of its departure.
Removed(s) ==
    /\ TornDown(s) /\ tdRuns[s] = 1
    /\ s \notin clients /\ s \notin DOMAIN users
    /\ \A r \in clients : Announcements(enq[r], s) = 1

\* C3: under fair scheduling, once a teardown of s is triggered (and has not
\* completed yet) s is eventually removed from the clients map and the user
\* table and the announcement is in the queue of every remaining session.
EventuallyTornDown ==
    \A s \in Sessions : (Triggered(s) /\ ~TornDown(s)) ~> Removed(s)

\* C3 witness: the keeper of s has ended, s has been removed and the other
\* session, still registered, holds the announcement.
KeeperTeardownWitness ==
    \E s \in Sessions, r \in Sessions :
        /\ r # s
        /\ pc[s]["ping"] = "done" /\ pc[s]["recv"] = "read"
        /\ Removed(s)
        /\ r \in clients

\* The positions of q that hold the chat message of rank id.
Copies(q, id) ==
    {i \in 1..Len(q) : q[i].kind = "ChatMessage" /\ q[i].id = id}

IsChat(m) == m.kind = "ChatMessage"

\* C5 as stated: in what a session is sent (enq) and in what its writer wrote
\* (sent), two chat messages of one sender never appear with the later one
\* (higher rank) ahead of the earlier one.
SenderOrderPreserved ==
    \A r \in Sessions :
        /\ \A i, j \in 1..Len(enq[r]) :
             (i < j /\ IsChat(enq[r][i]) /\ IsChat(enq[r][j])
                /\ enq[r][i].from = enq[r][j].from) =>
                    enq[r][i].id <= enq[r][j].id
        /\ \A i, j \in 1..Len(sent[r]) :
             (i < j /\ IsChat(sent[r][i]) /\ IsChat(sent[r][j])
                /\ sent[r][i].from = sent[r][j].from) =>
                    sent[r][i].id <= sent[r][j].id

\* C6: a chat message read from a registered session is appended to the
\* history exactly once and before its fan-out: the append step puts it at
\* the tail and touches no queue, no other step changes the history, the
\* history never holds a message twice and holds it once when the fan-out
\* runs; the fan-out step then appends exactly one copy to the queue of every
\* entry of the clients map, the sender's included, and to no other queue.
ChatAppendedThenFannedOut ==
    [][ /\ \A s \in Sessions :
             /\ (pc[s]["recv"] = "read" /\ pc'[s]["recv"] = "chat_hist") =>
                    /\ Copies(history, rd'[s].id) = {}
                    /\ \A r \in Sessions : Copies(enq[r], rd'[s].id) = {}
             /\ (pc[s]["recv"] = "chat_hist" /\ pc'[s]["recv"] # "chat_hist") =>
                    /\ pc'[s]["recv"] = "chat_fan"
                    /\ history' = Append(history, rd[s])
                    /\ UNCHANGED <<queue, enq, sent>>
                    /\ \A r \in Sessions : Copies(enq[r], rd[s].id) = {}
             /\ (pc[s]["recv"] = "chat_fan" /\ pc'[s]["recv"] # "chat_fan") =>
                    /\ Cardinality(Copies(history, rd[s].id)) = 1
                    /\ UNCHANGED history
                    /\ \A r \in Sessions :
                         enq'[r] = IF r \in clients THEN Append(enq[r], rd[s])
                                   ELSE enq[r]
                    /\ \A r \in Sessions :
                         queue'[r] = IF r \in clients THEN Append(queue[r], rd[s])
                                     ELSE queue[r]
        /\ (history' # history) =>
               \E s \in Sessions :
                   pc[s]["recv"] = "chat_hist" /\ pc'[s]["recv"] = "chat_fan"
        /\ \A id \in 1..nchat' : Cardinality(Copies(history', id)) <= 1
      ]_vars

\* C6 witness: the reader of s, itself in the clients map with another
\* session, has finished a fan-out; the message is in the history and the
\* last thing enqueued to both.
FannedOutToAllWitness ==
    \E s \in Sessions, r \in Sessions :
        /\ r # s
        /\ {s, r} \subseteq clients
        /\ pc[s]["recv"] = "read"
        /\ Len(history) >= 1 /\ Len(enq[s]) >= 1 /\ Len(enq[r]) >= 1
        /\ history[Len(history)].from = s
        /\ enq[s][Len(enq[s])] = history[Len(history)]
        /\ enq[r][Len(enq[r])] = history[Len(history)]

\* Every chat message in q carries the username the registry held for its
\* session when the message was processed, never the sender the client put in.
SendersFromRegistry(q) ==
    \A i \in 1..Len(q) :
        IsChat(q[i]) =>
            /\ q[i].sender = procName[q[i].id]
            /\ q[i].sender \notin ClientSenders

\* C7: the chat message a reader builds has as sender the username stored in
\* connected_users for the session at that moment; a name command of a
\* registered session stores the new name, so the next chat message carries
\* it; every chat message in the history, in a queue or written to a
\* transport has the registry's name of the time and never the client's value.
SenderIsRegistryName ==
    [][ /\ \A s \in Sessions :
             /\ (pc[s]["recv"] = "read" /\ pc'[s]["recv"] = "chat_hist") =>
                    /\ rd'[s].sender = users[s].username
                    /\ rd'[s].sender \notin ClientSenders
             /\ (pc[s]["recv"] = "read" /\ pc'[s]["recv"] = "name_reply"
                   /\ s \in DOMAIN users) =>
                    users'[s].username \in NewNames
             /\ (s \in DOMAIN users /\ s \in DOMAIN users'
                   /\ users'[s].username # users[s].username) =>
                    pc'[s]["recv"] = "name_reply"
        /\ SendersFromRegistry(history')
        /\ \A r \in Sessions :
             SendersFromRegistry(enq'[r]) /\ SendersFromRegistry(sent'[r])
      ]_vars

\* C7 witness: a session renamed itself and then sent a chat message, which
\* is in the history and was written to another session under the new name.
RenamedSenderWitness ==
    \E s \in Sessions, r \in Sessions, n \in NewNames :
        /\ r # s
        /\ Len(history) >= 1
        /\ history[Len(history)].from = s
        /\ history[Len(history)].sender = n
        /\ Len(sent[r]) >= 1
        /\ sent[r][Len(sent[r])] = history[Len(history)]

\* C8: after any sequence of appends the history holds at most 100 entries.
HistoryBounded == Len(hist) <= HistoryCap

\* C8 witness: more than 100 appends were made and the history is full.
HistoryFullWitness == Len(appended) > HistoryCap /\ Len(hist) = HistoryCap

\* C9: after k appends get_message_history returns the last min(k, 100)
\* appended messages, oldest first, in append order.
HistoryIsLastAppends ==
    LET k == Len(appended)
        n == IF k < HistoryCap THEN k ELSE HistoryCap
    IN  get_message_history(hist) = SubSeq(appended, k - n + 1, k)

\* C9 witness: after the 101st append the first message returned is the 2nd
\* one appended.
EvictedOldestWitness ==
    /\ Len(appended) = HistoryCap + 1
    /\ Len(get_message_history(hist)) = HistoryCap
    /\ get_message_history(hist)[1] = appended[2]
    /\ get_message_history(hist)[HistoryCap] = appended[HistoryCap + 1]

\* C10 as stated: the snapshot replayed to a session holds no message that
\* was appended after the session was put into the clients map.
ReplayPrecedesJoin ==
    \A s \in Sessions :
        \A i \in 1..Len(replayed[s]) :
            \E j \in 1..Len(histAtJoin[s]) : histAtJoin[s][j] = replayed[s][i]

\* The positions of recv_task inside its read loop.
ReaderLoop ==
    {"read", "chat_hist", "chat_fan", "name_reply", "list", "unknown", "pong",
     "invalid"}

\* The reader, the writer and the keeper of s are all in their loops.
Running(s) ==
    /\ pc[s]["recv"] \in ReaderLoop
    /\ pc[s]["send"] = "recv"
    /\ pc[s]["ping"] = "tick"

\* No teardown of s is pending or under way: handle_connection waits in its
\* select! with no arm ready, or has returned, and no task of s is at or
\* inside handle_disconnection.
Settled(s) ==
    /\ hdLock[s] = "free"
    /\ \A t \in Tasks : pc[s][t] \notin TdSteps \cup {"hd"}
    /\ \/ pc[s]["main"] = "done"
       \/ /\ pc[s]["main"] = "select"
          /\ ~sig[s]
          /\ \A t \in Tasks : ~Ended(s, t)

\* C11 as stated: whenever no teardown of s is pending, s has an entry in
\* the clients map exactly when its reader, writer and keeper are all
\* running; and once s has been torn down neither its reader nor its writer
\* is still in its loop.
RegisteredIffRunning ==
    \A s \in Sessions :
        /\ Settled(s) => ((s \in clients) <=> Running(s))
        /\ (Settled(s) /\ TornDown(s)) =>
               (pc[s]["recv"] \notin ReaderLoop /\ pc[s]["send"] # "recv")

\* C12 as stated: a session enters the clients map or the user table only
\* after it submitted credentials the store accepts, and is in neither
\* before; a username changes only in that session's own name command; an
\* entry leaves only in that session's own teardown.
RegistryChangesAsStated ==
    [][ \A s \in Sessions :
          /\ (s \notin clients /\ s \in clients') => authed[s]
          /\ (s \notin DOMAIN users /\ s \in DOMAIN users') => authed[s]
          /\ (s \in clients' \/ s \in DOMAIN users') => authed'[s]
          /\ (s \in DOMAIN users /\ s \in DOMAIN users'
                /\ users'[s].username # users[s].username) =>
                 (pc[s]["recv"] = "read" /\ pc'[s]["recv"] = "name_reply")
          /\ (s \in clients /\ s \notin clients') =>
                 \E t \in Tasks : pc[s][t] = "td_client" /\ pc'[s][t] = "td_announce"
          /\ (s \in DOMAIN users /\ s \notin DOMAIN users') =>
                 \E t \in Tasks : pc[s][t] = "td_user" /\ pc'[s][t] = "td_client"
      ]_vars

\* C13 as stated: once a connection has made 5 rejected credential
\* submissions its reader takes no further frame into processing, its
\* session is in neither table and no chat of it is appended to the history.
ClosedAfterAuthLimit ==
    [][ \A s \in Sessions :
          failed[s] >= AuthLimit =>
              /\ ~(pc[s]["recv"] = "read" /\ pc'[s]["recv"] \in ReaderLoop \ {"read"})
              /\ ~(pc[s]["recv"] = "chat_hist" /\ history' # history)
              /\ s \notin clients' /\ s \notin DOMAIN users'
      ]_vars

\* The username and password pairs App::new puts into the store.
StoredPairs == {<<"user1", "password1">>, <<"user2", "password2">>}

\* C14: authenticate_user returns true exactly for a username of the store
\* with the password stored for it; false for an unknown username, for an
\* empty username and for an empty password; the call changes no state of
\* the App.
AuthenticatesStoredPairs ==
    result \in {"true", "false"} =>
        /\ (result = "true") <=> (<<cred.username, cred.password>> \in StoredPairs)
        /\ cred.username \notin {"user1", "user2"} => result = "false"
        /\ cred.username = "" => result = "false"
        /\ cred.password = "" => result = "false"
        /\ users = <<>> /\ history = <<>> /\ clients = {}

\* C14 witness: the second call made was given a stored pair and returned
\* true.
AcceptedAfterRejectedWitness ==
    /\ ncalls = 2
    /\ result = "true"
    /\ cred = [username |-> "user2", password |-> "password2"]

\* C15: every keep-alive timeout (no pong in the channel when the wait ends)
\* takes the keeper into handle_disconnection; from there, under fair
\* scheduling, the session is removed from both tables and announced; a Pong
\* that arrives after the timeout neither puts the keeper back into its loop
\* nor the session back into the clients map.
KeeperTimeoutTearsDown ==
    /\ \A s \in Sessions :
         (pc[s]["ping"] = "hd" /\ ~TornDown(s)) ~> Removed(s)
    /\ [][ /\ faults' < faults =>
                \E s \in Sessions :
                    /\ pc[s]["ping"] = "tick" /\ pongs[s] = 0
                    /\ pc'[s]["ping"] = "hd"
           /\ \A s \in Sessions :
                /\ pc[s]["ping"] \notin {"off", "tick"} => pc'[s]["ping"] # "tick"
                /\ (pc[s]["ping"] \notin {"off", "tick"} /\ s \notin clients) =>
                       s \notin clients'
         ]_vars

\* C15 witness: the keeper of s timed out, a Pong of the client was put into
\* the pong channel after that, and s has been removed and announced.
LatePongWitness ==
    \E s \in Sessions, r \in Sessions :
        /\ r # s
        /\ pc[s]["ping"] = "done" /\ pongs[s] = 1
        /\ Removed(s)
        /\ r \in clients

\* C16 as stated: the first Ping of a session is sent no earlier than one
\* full period after ping_task started.
FirstPingAfterPeriod ==
    \A s \in Sessions : firstPing[s] # NoPing => firstPing[s] >= PingPeriod

MalformedDiscarded ==
    [][ \A s \in Sessions :
          /\ (pc[s]["recv"] = "read" /\ pc'[s]["recv"] = "invalid") =>
                 UNCHANGED <<clients, users, history, queue, enq, sent>>
          /\ (pc[s]["recv"] = "invalid" /\ pc'[s]["recv"] # "invalid") =>
                 /\ pc'[s]["recv"] = "read"
                 /\ UNCHANGED <<clients, users, history, queue, enq, sent>>
                 /\ \A t \in Tasks \ {"recv"} : pc'[s][t] = pc[s][t]
      ]_vars

\* C19 witness: the only connected session sent a text that does not decode
\* and then a chat message, which its reader is handling.
ChatAfterMalformedWitness ==
    \E s \in Sessions :
        /\ \A r \in Sessions \ {s} : pc[r]["main"] = "idle"
        /\ s \in clients /\ s \in DOMAIN users
        /\ frames = 0 /\ nchat = 1
        /\ pc[s]["recv"] = "chat_hist"

\* C20 as stated: a reader whose session is no longer in the user table and
\* the clients map, on the next frame it takes, neither panics nor starts to
\* append, fan out or reply: it stays at its read (or leaves at stream end).
DispatchForDepartedIsNoOp ==
    [][ \A s \in Sessions :
          (pc[s]["recv"] = "read" /\ s \notin DOMAIN users /\ s \notin clients) =>
              pc'[s]["recv"] \in {"read", "hd"}
      ]_vars

\* The positions of handle_connection from its spawn to its select!.
Joined == {"insert", "add_user", "snapshot", "replay", "select"}

\* C21 as stated, in the form a finite run can refute: once the shutdown
\* signal has been broadcast, the accept loop has stopped or waits in its
\* select! on a subscription that holds the signal, and every session that
\* has been accepted and has not left its select! holds the signal.  (A loop
\* that waits on a subscription without the signal never stops: the signal
\* is sent once and websocket_task keeps a Sender, so recv never returns.)
ShutdownReachesAll ==
    shutdownSent =>
        /\ \/ acceptor = "stopped"
           \/ acceptor = "select" /\ accSig
        /\ \A s \in Sessions : pc[s]["main"] \in Joined => sig[s]

\* The positions of recv_task inside handle_command.
InCommand == {"name_reply", "list", "unknown"}

\* m is in q.
Holds(q, m) == \E i \in 1..Len(q) : q[i] = m

\* C22: the history holds ChatMessages only, none of them a message a
\* command produced (every reply is a SystemMessage), and no step of
\* handle_command, from the dispatch of the Command to the end of its arm,
\* changes the history.
CommandsNotHistoric ==
    [][ /\ \A i \in 1..Len(history') : IsChat(history'[i])
        /\ \A s \in Sessions :
             ((pc[s]["recv"] \in InCommand \/ pc'[s]["recv"] \in InCommand)
                 /\ pc'[s]["recv"] # pc[s]["recv"]) =>
                   history' = history
      ]_vars

\* C22 witness: a session was sent a name confirmation and an unknown-command
\* notice, and the history holds the one chat message that was sent.
RepliesBesideHistoryWitness ==
    \E s \in Sessions, n \in CmdNames :
        /\ Holds(enq[s], NameReply(n, s))
        /\ Holds(enq[s], UnknownReply(s))
        /\ Len(history) = 1
        /\ frames = 0

\* C23 as stated: a name command with an empty new name is rejected, so no
\* entry of the user table ever holds an empty username and no session is
\* ever sent the confirmation "Your name is now set to ''" (it would be sent
\* "Please provide a valid name." instead).
EmptyNameRejected ==
    \A s \in Sessions :
        /\ s \in DOMAIN users => users[s].username # ""
        /\ ~Holds(enq[s], NameReply("", s))

IsNameReply(m) ==
    /\ m.kind = "SystemMessage"
    /\ Len(m.text) = 3
    /\ m.text[1] = "Your name is now set to '"

\* The new_name of the last name command of s that was carried out, read off
\* the confirmations s was sent; the default name if there was none.
LastRename(s) ==
    LET done == {i \in 1..Len(enq[s]) : IsNameReply(enq[s][i])}
    IN  IF done = {} THEN DefaultName
        ELSE enq[s][CHOOSE i \in done : \A j \in done : j <= i].text[2]

\* C24: whenever the reader of a registered session is not inside a name
\* command, the username the user table holds for it is the new_name of its
\* most recent rename, whatever the other sessions did meanwhile; and the
\* reply to a list command of the session shows that name for it (and for
\* every other entry the username of that entry).
ListShowsLastRename ==
    [][ \A s \in Sessions :
          /\ (s \in DOMAIN users' /\ pc'[s]["recv"] # "name_reply") =>
                 users'[s].username = LastRename(s)'
          /\ (pc[s]["recv"] = "list" /\ pc'[s]["recv"] # "list"
                /\ s \in clients /\ s \in DOMAIN users) =>
                 \E f \in Orders(DOMAIN users) :
                     enq'[s] = Append(enq[s],
                         ListReply([i \in 1..Cardinality(DOMAIN users) |->
                                      IF f[i] = s THEN LastRename(s)
                                      ELSE users[f[i]].username], s))
      ]_vars

\* C24 witness: with another session registered, s renamed itself twice and
\* then listed the users: the reply shows its second name.
SecondNameListedWitness ==
    \E s \in Sessions, r \in Sessions :
        /\ r # s /\ r \in DOMAIN users
        /\ Len(enq[s]) = 3
        /\ enq[s][1] = NameReply("ann", s)
        /\ enq[s][2] = NameReply("bob", s)
        /\ enq[s][3] \in {ListReply(<<"bob", users[r].username>>, s),
                          ListReply(<<users[r].username, "bob">>, s)}

\* t is "Connected users: " followed by the username of every entry of the
\* user table exactly once, in some order, with ", " between two names.
ListsEveryUser(t) ==
    LET n == Cardinality(DOMAIN users)
    IN  /\ Len(t) = IF n = 0 THEN 1 ELSE 2 * n
        /\ t[1] = "Connected users: "
        /\ \E f \in Orders(DOMAIN users) :
             \A i \in 1..n :
                 /\ t[2 * i] = users[f[i]].username
                 /\ i < n => t[2 * i + 1] = ", "

\* C25: the dispatch of a list command enqueues nothing; the "list" arm of a
\* session that is in the clients map appends exactly one SystemMessage to
\* the issuer's queue, "Connected users: " with the username of every entry of
\* the user table at that moment exactly once, joined by ", "; no other queue,
\* neither table and not the history change, and the reader goes on reading.
ListRepliesToIssuer ==
    [][ \A s \in Sessions :
          /\ (pc[s]["recv"] = "read" /\ pc'[s]["recv"] = "list") =>
                 UNCHANGED <<clients, users, history, queue, enq, sent>>
          /\ (pc[s]["recv"] = "list" /\ pc'[s]["recv"] # "list" /\ s \in clients) =>
                 /\ Len(enq'[s]) = Len(enq[s]) + 1
                 /\ SubSeq(enq'[s], 1, Len(enq[s])) = enq[s]
                 /\ enq'[s][Len(enq'[s])].kind = "SystemMessage"
                 /\ ListsEveryUser(enq'[s][Len(enq'[s])].text)
                 /\ queue'[s] = Append(queue[s], enq'[s][Len(enq'[s])])
                 /\ \A r \in Sessions \ {s} : enq'[r] = enq[r] /\ queue'[r] = queue[r]
                 /\ UNCHANGED <<clients, users, history, sent>>
                 /\ pc'[s]["recv"] = "read"
      ]_vars

\* C25 witness: two sessions are registered, one of them renamed; the other
\* listed the users and was sent both names, and the renamed one was sent
\* only the confirmation of its name.
ListedBothWitness ==
    \E s \in Sessions, r \in Sessions :
        /\ r # s /\ {s, r} \subseteq clients /\ {s, r} \subseteq DOMAIN users
        /\ users[r].username = "ann" /\ users[s].username = DefaultName
        /\ enq[r] = <<NameReply("ann", r)>>
        /\ Len(enq[s]) = 1
        /\ enq[s][1] \in {ListReply(<<"ann", DefaultName>>, s),
                          ListReply(<<DefaultName, "ann">>, s)}

\* C26 as stated: the step that delivers a private message of a named issuer
\* appends "(Private message from S): content", S being the issuer's name, to
\* what the recipient is sent, and prepares the echo "(Private message to
\* recipient): content", which the next step appends to what the issuer is
\* sent.
DirectMessageDelivered ==
    [][ \A p \in Peers :
          /\ (strPc[p] = "dm_send" /\ strPc'[p] = "reply"
                /\ p \in DOMAIN strClients /\ strClients[p] # None) =>
                 /\ strSent'[strDm[p].to] =
                        Append(strSent[strDm[p].to],
                               PrivateFrom(strClients[p][1], strDm[p].message))
                 /\ strOut'[p] = PrivateTo(strDm[p].recipient_name, strDm[p].message)
          /\ (strPc[p] = "reply" /\ strPc'[p] = "read"
                /\ p \in DOMAIN strClients) =>
                 strSent'[p] = Append(strSent[p], strOut[p])
      ]_vars

IsNotFound(m) == Len(m) = 3 /\ m[1] = "User '" /\ m[3] = "' not found."

\* C27: handling "/dm" changes what a session is sent only for the issuer
\* and for the one session picked among those whose name is the recipient's:
\* the lookup sends nothing and picks an entry with that name, or, if there
\* is none, prepares the notice "User '<recipient>' not found."; the delivery
\* appends one message for the picked session and touches no other; the
\* reply (echo, notice or usage) is appended for the issuer and touches no
\* other.
DirectMessageIsolated ==
    [][ \A p \in Peers :
          /\ (strPc[p] = "read" /\ strPc'[p] = "dm_send") =>
                 /\ strSent' = strSent
                 /\ strDm'[p].to \in DOMAIN strClients
                 /\ strClients[strDm'[p].to] = Some(strDm'[p].recipient_name)
          /\ (strPc[p] = "read" /\ strPc'[p] = "reply" /\ IsNotFound(strOut'[p])) =>
                 /\ strSent' = strSent
                 /\ \A x \in DOMAIN strClients : strClients[x] # Some(strOut'[p][2])
          /\ (strPc[p] = "dm_send" /\ strPc'[p] # "dm_send") =>
                 /\ \A x \in Peers \ {strDm[p].to} : strSent'[x] = strSent[x]
                 /\ Len(strSent'[strDm[p].to]) <= Len(strSent[strDm[p].to]) + 1
          /\ (strPc[p] = "reply" /\ strPc'[p] # "reply") =>
                 /\ \A x \in Peers \ {p} : strSent'[x] = strSent[x]
                 /\ strSent'[p] \in {strSent[p], Append(strSent[p], strOut[p])}
      ]_vars

\* C27 witness: two sessions are named "bob"; a third sent "/dm bob hi" and
\* was sent the echo; one of the two was sent the private message and the
\* other nothing but the confirmation of its name.
OneOfTwoBobsWitness ==
    \E p \in Peers, r \in Peers, x \in Peers :
        /\ p # r /\ p # x /\ r # x
        /\ {p, r, x} \subseteq DOMAIN strClients
        /\ strClients[r] = Some("bob") /\ strClients[x] = Some("bob")
        /\ strSent[p] = <<PrivateTo("bob", "hi")>>
        /\ strSent[r] = <<NameSet("bob"), PrivateFrom("bob", "hi")>>
        /\ strSent[x] = <<NameSet("bob")>>

\* C28: the dispatch of a Command with an unknown name enqueues nothing; the
\* default arm, for an issuer that is in the clients map, appends the one
\* SystemMessage "Unknown command. Type /help for a list of commands." to the
\* issuer's queue and to no other; the clients map, the user table and the
\* history stay as they are, the reader is back at its read and the other
\* tasks of the session are where they were.
UnknownCommandNoticed ==
    [][ \A s \in Sessions :
          /\ (pc[s]["recv"] = "read" /\ pc'[s]["recv"] = "unknown") =>
                 UNCHANGED <<clients, users, history, queue, enq, sent>>
          /\ (pc[s]["recv"] = "unknown" /\ pc'[s]["recv"] # "unknown"
                /\ s \in clients) =>
                 /\ enq'[s] = Append(enq[s], SystemMessage(
                        <<"Unknown command. Type /help for a list of commands.">>, s))
                 /\ queue'[s] = Append(queue[s], SystemMessage(
                        <<"Unknown command. Type /help for a list of commands.">>, s))
                 /\ \A r \in Sessions \ {s} : enq'[r] = enq[r] /\ queue'[r] = queue[r]
                 /\ UNCHANGED <<clients, users, history, sent>>
                 /\ pc'[s]["recv"] = "read"
                 /\ \A t \in Tasks \ {"recv"} : pc'[s][t] = pc[s][t]
      ]_vars

\* C28 witness: of two registered sessions with all their tasks running, one
\* sent an unknown command and was sent the notice, the other nothing.
NoticeToIssuerWitness ==
    \E s \in Sessions, r \in Sessions :
        /\ r # s /\ {s, r} \subseteq clients /\ {s, r} \subseteq DOMAIN users
        /\ Running(s) /\ Running(r)
        /\ pc[s]["main"] = "select" /\ pc[s]["recv"] = "read"
        /\ enq[s] = <<UnknownReply(s)>>
        /\ enq[r] = <<>>

ChatsFrom(s) == Cardinality({i \in 1..Len(history) : history[i].from = s})

\* C30 as stated: whenever the reader of a registered session is not in the
\* middle of a chat message, the session's message_count is the number of
\* chat messages processed from it (one increment for each, none lost, none
\* taken back).
MessageCountCountsChats ==
    \A s \in DOMAIN users :
        pc[s]["recv"] \notin {"chat_hist", "chat_fan"} =>
            users[s].message_count = ChatsFrom(s)

\* Claim C31: in the string-protocol server a failure of one client is fatal
\* for that client only: a chat broadcast or a disconnect broadcast of
\* another client ends without a panic of the broadcasting reader, and every
\* entry of the clients map whose channel is open was sent the message.
StrBroadcastsComplete ==
    [][\A p \in Peers :
          (strPc[p] \in {"chat_fan", "announce"} /\ strPc'[p] # strPc[p])
          => /\ strPc'[p] # "panicked"
             /\ \A x \in DOMAIN strClients \ strClosed :
                   strSent'[x] = Append(strSent[x],
                                        IF strPc[p] = "chat_fan" THEN strMsg[p]
                                        ELSE strOut[p])]_vars

\* Claim C39: the history of the string-protocol server never holds more
\* than 100 messages, whatever the interleaving of the readers' appends.
StrHistoryBounded == Len(strHistory) <= StrHistoryCap

\* Claim C32: wrap_text loses, duplicates or reorders no word and breaks only
\* at whitespace: the words of the returned lines, read in order, are the
\* whitespace-separated words of the text, and every returned line is its
\* words joined by single spaces; within one line of the text a new line is
\* started exactly when the length of the current line plus the length of
\* the next word exceeds max_width; the empty text yields one empty line.
RECURSIVE JoinWords(_)
JoinWords(words) ==
    IF words = <<>> THEN <<>>
    ELSE IF Len(words) = 1 THEN Head(words)
    ELSE Head(words) \o <<" ">> \o JoinWords(Tail(words))

WordsOf(lines) == Flat([i \in 1..Len(lines) |-> split_whitespace(lines[i])])

\* the lines returned for one line of the text break exactly where the claim
\* says
BreaksAsStated(out, max_width) ==
    /\ \A i \in 1..Len(out) :
          LET words == split_whitespace(out[i])
          IN  /\ out[i] = JoinWords(words)
              /\ \A j \in 2..Len(words) :
                    Len(JoinWords(SubSeq(words, 1, j - 1))) + Len(words[j])
                        <= max_width
    /\ \A i \in 1..(Len(out) - 1) :
          LET next == split_whitespace(out[i + 1])
          IN  /\ next # <<>>
              /\ Len(out[i]) + Len(next[1]) > max_width
    /\ \A i \in 2..Len(out) : out[i] # <<>>
    /\ (out[1] = <<>> /\ Len(out) > 1)
          => Len(split_whitespace(out[2])[1]) > max_width

LockTasks == Sessions \X Tasks

NextStep(a) ==
    IF script[a[1]][a[2]] = <<>> THEN [op |-> "none", m |-> Free, what |-> "none"]
    ELSE Head(script[a[1]][a[2]])

FanOutSendsUnlocked ==
    \A a \in LockTasks :
        NextStep(a).op = "send_all" => mtx[ClientsMutex] # a

\* Claim C34: the server is deadlock-free: no set of tasks waits in a cycle,
\* each for a mutex that a task of the set holds, on the app mutex, the
\* clients mutex, a UserInfo mutex, a disconnect flag mutex or a sink mutex;
\* and no task requests the app mutex while it holds the clients mutex.
Requests(a, m) == NextStep(a).op \in {"lock", "section"} /\ NextStep(a).m = m

Blocked(a) == \E m \in Mutexes : Requests(a, m) /\ mtx[m] # Free

DeadlockFree ==
    /\ \A W \in SUBSET {a \in LockTasks : Blocked(a)} :
          W # {} => \E a \in W : mtx[NextStep(a).m] \notin W
    /\ \A a \in LockTasks :
          Requests(a, AppMutex) => mtx[ClientsMutex] # a

\* a list command holds the app mutex and waits for the clients mutex, which
\* a chat fan-out of the other session holds, while a third task waits for
\* the app mutex
ContendedWitness ==
    \E a, b, c \in LockTasks :
        /\ a[1] # b[1]
        /\ mtx[AppMutex] = a
        /\ Requests(a, ClientsMutex)
        /\ mtx[ClientsMutex] = b
        /\ NextStep(b).op = "send_all"
        /\ Requests(c, AppMutex)
        /\ c \notin {a, b}

\* Claim C35: the clients map and the connected_users table agree on
\* membership: from the end of a session's registration until its teardown
\* begins its id is a key of both, after its teardown has completed a key
\* of neither, and an id leaves the clients map only in the removal step of
\* its own teardown and the user table only in the step before it; no chat
\* fan-out removes an id from one of them.
Registered(s) == pc[s]["main"] \in {"snapshot", "replay", "select", "hd"}

TablesAgree ==
    /\ [](\A s \in Sessions :
            /\ (Registered(s) /\ ~handled[s])
                  => (s \in clients /\ s \in DOMAIN users)
            /\ TornDown(s) => (s \notin clients /\ s \notin DOMAIN users))
    /\ [][\A s \in Sessions :
            /\ (s \in clients /\ s \notin clients')
                  => \E t \in Tasks : pc[s][t] = "td_client" /\ pc'[s][t] # "td_client"
            /\ (s \in DOMAIN users /\ s \notin DOMAIN users')
                  => \E t \in Tasks : pc[s][t] = "td_user" /\ pc'[s][t] # "td_user"]_vars

\* one session is torn down and in neither table, the other is in both and
\* was sent a chat message after the announcement of the teardown
FanOutAfterTeardownWitness ==
    \E s, r \in Sessions :
        /\ TornDown(s)
        /\ Registered(r) /\ ~handled[r]
        /\ r \in clients /\ r \in DOMAIN users
        /\ \E i, j \in 1..Len(enq[r]) :
              i < j /\ IsDisconnect(enq[r][i], s) /\ IsChat(enq[r][j])

\* Claim C36: no session is sent the same chat message twice: a message a
\* joining session gets through the history replay is not also enqueued to
\* it by the live fan-out.
NoDuplicateDelivery ==
    \A r \in Sessions :
        \A i, j \in 1..Len(enq[r]) :
            (IsChat(enq[r][i]) /\ IsChat(enq[r][j]) /\ enq[r][i].id = enq[r][j].id)
                => i = j

\* Claim C37: delivery order agrees with history order: two chat messages
\* that are both in the history and were both enqueued to one session were
\* enqueued to it in the order in which the history holds them.
DeliveryFollowsHistory ==
    \A r \in Sessions :
        \A i, j \in 1..Len(enq[r]) :
            \A hi, hj \in 1..Len(history) :
                (i < j /\ IsChat(enq[r][i]) /\ IsChat(enq[r][j])
                   /\ history[hi] = enq[r][i] /\ history[hj] = enq[r][j]
                   /\ hi # hj)
                    => hi < hj

\* The same for the sessions that were replayed nothing: the live fan-outs
\* of two concurrent senders alone.
LiveDeliveryFollowsHistory ==
    \A r \in Sessions : replayed[r] = <<>> =>
        \A i, j \in 1..Len(enq[r]) :
            \A hi, hj \in 1..Len(history) :
                (i < j /\ IsChat(enq[r][i]) /\ IsChat(enq[r][j])
                   /\ history[hi] = enq[r][i] /\ history[hj] = enq[r][j]
                   /\ hi # hj)
                    => hi < hj

\* Claim C38: a Pong the reader received before the keeper wrote a Ping is
\* not counted as the answer to that Ping: the keeper goes on to its next
\* round only on a notification that was put into the channel after the
\* round's Ping was written, so that a client that sent one unsolicited Pong
\* and then nothing is torn down at the first Ping.
StalePongNotCounted ==
    [][\A s \in Sessions :
          (pc[s]["ping"] = "wait" /\ pc'[s]["ping"] = "tick") => stale[s] = 0]_vars

\* Claim C40: in the client failed_login_attempts stays within 0..5 for
\* every sequence of server messages, so that 5 - failed_login_attempts
\* never underflows: no subtraction panics and every remaining-attempts
\* value computed is within 0..5.
FailedAttemptsWithinLimit ==
    /\ failed_login_attempts \in 0..AuthLimit
    /\ remaining_attempts # None => remaining_attempts[1] \in 0..AuthLimit
    /\ ~crashed

\* The rest of C40, which holds while the counter is below the limit: an
\* "Authentication failed" below the 5th leaves the screen at LoggingIn, the
\* 5th moves it to Disconnected, and an "Authentication successful" resets
\* the counter and moves the screen to Main.
LoginScreensAsStated ==
    [][(nmsgs' = nmsgs + 1 /\ failed_login_attempts < AuthLimit) =>
          \/ /\ failed_login_attempts' = failed_login_attempts + 1
             /\ current_screen' = IF failed_login_attempts' = AuthLimit
                                  THEN "Disconnected" ELSE "LoggingIn"
          \/ /\ failed_login_attempts' = 0
             /\ current_screen' = "Main"
          \/ UNCHANGED <<failed_login_attempts, current_screen>>]_vars

====
